---- MODULE Spec2Model ----
(***************************************************************************)
(* Infinite canvas: the canvas component (element store, selection,        *)
(* viewport, pointer/keyboard state machine), the page component (tool,    *)
(* undo history) and the browser storage they persist to.                  *)
(*                                                                         *)
(* Numbers are integers.  Three JavaScript values that the code can put    *)
(* into a numeric field are encoded as reserved integers (NaN, Undefined,  *)
(* Null); all arithmetic on element fields goes through Add/Sub/Scale,     *)
(* which propagate them as JavaScript does.  The viewport scale is kept in *)
(* ten-thousandths (ScaleUnit = scale 1.0), font sizes in twelfths of a    *)
(* pixel (FontUnit).  A quotient that is not an integer is truncated.      *)
(***************************************************************************)
EXTENDS Integers, Sequences, FiniteSets, TLC

VARIABLES
  elements,          \* canvas: ordered element collection
  isDrawing,         \* canvas: a draft gesture is in progress
  isPanning,         \* canvas: a pan / move gesture is in progress
  currentElement,    \* canvas: the draft, or NoElement
  viewport,          \* canvas: [x, y, scale]
  lastPanPoint,      \* canvas: previous pointer position of a pan, or NoPoint
  textInput,         \* canvas: [x, y, show]
  selectedElements,  \* canvas: set of selected ids
  selectionBox,      \* canvas: [start, end] world points, or NoBox
  resizeHandle,      \* canvas: [handle, elementId, startBounds, startPoint] or NoResize
  tool,              \* page: active tool
  history,           \* page: snapshots, every queued update applied
  historyIndex,      \* page: cursor, every queued update applied
  rHistory,          \* page: history as of the last page render (what closures see)
  rIndex,            \* page: historyIndex as of the last page render
  ls,                \* localStorage
  now,               \* last value read from Date.now()
  rnd,               \* number of values drawn from Math.random()
  steps,             \* number of counted input events so far
  ev,                \* the last event (history variable)
  decoded,           \* ids of image elements whose HTMLImageElement has finished decoding
  painted            \* drawing surface: ids of the image elements the last render pass drew

vars == <<elements, isDrawing, isPanning, currentElement, viewport, lastPanPoint,
          textInput, selectedElements, selectionBox, resizeHandle, tool,
          history, historyIndex, rHistory, rIndex, ls, now, rnd, steps, ev,
          decoded, painted>>

canvasVars == <<elements, isDrawing, isPanning, currentElement, viewport, lastPanPoint,
                textInput, selectedElements, selectionBox, resizeHandle>>

-----------------------------------------------------------------------------
(* Bounds of the model *)

MaxSteps == 3      \* counted input events per behaviour
MaxNow == 11       \* largest clock value

-----------------------------------------------------------------------------
(* JavaScript numbers *)

NaN == 999001
Undefined == 999002
Null == 999003

\* the viewport scale is kept in ten-thousandths, so that four wheel steps
\* from scale 1 are exact
ScaleUnit == 10000

\* font sizes are kept in twelfths of a pixel, so that the line height
\* fontSize * 1.2 and the font size newHeight / 1.2 of a resize are exact
FontUnit == 12

IsNum(v) == v \notin {NaN, Undefined}
Val(v) == IF v = Null THEN 0 ELSE v

Add(a, b) == IF IsNum(a) /\ IsNum(b) THEN Val(a) + Val(b) ELSE NaN
Sub(a, b) == IF IsNum(a) /\ IsNum(b) THEN Val(a) - Val(b) ELSE NaN

Quot(a, b) == IF a >= 0 THEN a \div b ELSE -((-a) \div b)

\* a / b
Div(a, b) ==
  IF ~(IsNum(a) /\ IsNum(b)) THEN NaN
  ELSE IF Val(b) = 0 THEN NaN
  ELSE IF Val(b) > 0 THEN Quot(Val(a), Val(b))
  ELSE Quot(-Val(a), -Val(b))

\* off * (num / den); 0 * Infinity is NaN
Scale(off, num, den) ==
  IF ~(IsNum(off) /\ IsNum(num) /\ IsNum(den)) THEN NaN
  ELSE IF Val(den) = 0 THEN NaN
  ELSE IF Val(den) > 0 THEN Quot(Val(off) * Val(num), Val(den))
  ELSE Quot(-(Val(off) * Val(num)), -Val(den))

\* comparisons: false as soon as one side is NaN or undefined
Le(a, b) == IsNum(a) /\ IsNum(b) /\ Val(a) <= Val(b)
Lt(a, b) == IsNum(a) /\ IsNum(b) /\ Val(a) < Val(b)
Ge(a, b) == Le(b, a)

Abs(a) == IF ~IsNum(a) THEN NaN ELSE IF Val(a) < 0 THEN -Val(a) ELSE Val(a)
MathMin(a, b) == IF ~(IsNum(a) /\ IsNum(b)) THEN NaN ELSE IF Val(a) <= Val(b) THEN Val(a) ELSE Val(b)
MathMax(a, b) == IF ~(IsNum(a) /\ IsNum(b)) THEN NaN ELSE IF Val(a) >= Val(b) THEN Val(a) ELSE Val(b)

RECURSIVE MinOf(_)
MinOf(s) == IF Len(s) = 1 THEN s[1] ELSE MathMin(s[1], MinOf(Tail(s)))
RECURSIVE MaxOf(_)
MaxOf(s) == IF Len(s) = 1 THEN s[1] ELSE MathMax(s[1], MaxOf(Tail(s)))

-----------------------------------------------------------------------------
(* Values standing for "nothing" *)

NoElement == [type |-> "none"]
NoPoint == [none |-> TRUE]
NoBox == [none |-> TRUE]
NoResize == [none |-> TRUE]
NoBounds == [none |-> TRUE]

Pt(px, py) == [x |-> px, y |-> py]

\* the fields of an element that hold a number
NumKeys == {"x", "y", "width", "height", "radius", "startX", "startY", "endX", "endY", "fontSize"}

HasKey(el, k) == k \in DOMAIN el

-----------------------------------------------------------------------------
(* Geometry kernel *)

TextLen(s) == CASE s = "hi" -> 2 [] s = "text" -> 4 [] OTHER -> 0

measureText(text, fontSize) ==
  [width |-> Scale(fontSize, TextLen(text), 2 * FontUnit),
   height |-> Scale(fontSize, 12, 10 * FontUnit)]

PointXs(pts) == [i \in 1..Len(pts) |-> pts[i].x]
PointYs(pts) == [i \in 1..Len(pts) |-> pts[i].y]

getElementBounds(el) ==
  CASE el.type \in {"rectangle", "ellipse", "diamond", "image"} ->
         [x |-> el.x, y |-> el.y, width |-> el.width, height |-> el.height]
    [] el.type = "circle" ->
         [x |-> Sub(el.x, el.radius), y |-> Sub(el.y, el.radius),
          width |-> Add(el.radius, el.radius), height |-> Add(el.radius, el.radius)]
    [] el.type \in {"line", "arrow"} ->
         [x |-> MathMin(el.startX, el.endX), y |-> MathMin(el.startY, el.endY),
          width |-> Abs(Sub(el.endX, el.startX)), height |-> Abs(Sub(el.endY, el.startY))]
    [] el.type = "text" ->
         LET textSize == measureText(el.text, el.fontSize)
         IN [x |-> el.x, y |-> Sub(el.y, textSize.height),
             width |-> textSize.width, height |-> textSize.height]
    [] el.type = "path" ->
         IF Len(el.points) = 0 THEN NoBounds
         ELSE LET xs == PointXs(el.points)
                  ys == PointYs(el.points)
              IN [x |-> MinOf(xs), y |-> MinOf(ys),
                  width |-> Sub(MaxOf(xs), MinOf(xs)), height |-> Sub(MaxOf(ys), MinOf(ys))]
    [] OTHER -> NoBounds

isPointInElement(point, el) ==
  LET bounds == getElementBounds(el)
  IN /\ bounds # NoBounds
     /\ Ge(point.x, bounds.x)
     /\ Le(point.x, Add(bounds.x, bounds.width))
     /\ Ge(point.y, bounds.y)
     /\ Le(point.y, Add(bounds.y, bounds.height))

HandleNames == <<"nw", "n", "ne", "e", "se", "s", "sw", "w">>
HandleSize == 8
HandleHitSize == 12
SelectionPadding == 5

getResizeHandles(bounds) ==
  LET hs == Quot(HandleSize, 2)
      left == Sub(bounds.x, hs)
      midX == Sub(Add(bounds.x, Div(bounds.width, 2)), hs)
      right == Sub(Add(bounds.x, bounds.width), hs)
      top == Sub(bounds.y, hs)
      midY == Sub(Add(bounds.y, Div(bounds.height, 2)), hs)
      bottom == Sub(Add(bounds.y, bounds.height), hs)
  IN [nw |-> Pt(left, top), n |-> Pt(midX, top), ne |-> Pt(right, top),
      e |-> Pt(right, midY), se |-> Pt(right, bottom), s |-> Pt(midX, bottom),
      sw |-> Pt(left, bottom), w |-> Pt(left, midY)]

getHandleAtPoint(point, bounds) ==
  LET handles == getResizeHandles(bounds)
      half == Quot(HandleHitSize, 2)
      Hit(h) == /\ Ge(point.x, Sub(h.x, half))
                /\ Le(point.x, Add(h.x, HandleHitSize))
                /\ Ge(point.y, Sub(h.y, half))
                /\ Le(point.y, Add(h.y, HandleHitSize))
      hits == {i \in 1..8 : Hit(handles[HandleNames[i]])}
  IN IF hits = {} THEN "none"
     ELSE HandleNames[CHOOSE i \in hits : \A j \in hits : i <= j]

screenToCanvas(v, sx, sy) ==
  Pt(Quot((sx - v.x) * ScaleUnit, v.scale), Quot((sy - v.y) * ScaleUnit, v.scale))

-----------------------------------------------------------------------------
(* JSON and localStorage *)

Missing == [st |-> "missing"]
Bad == [st |-> "bad"]
Ok(v) == [st |-> "ok", v |-> v]

JsonNum(v) == IF v = NaN THEN Null ELSE v

\* JSON.stringify of one element: a key whose value is undefined is left out,
\* NaN is written as null
Stringify(el) ==
  [k \in {j \in DOMAIN el : ~(j \in NumKeys /\ el[j] = Undefined)} |->
     IF k \in NumKeys THEN JsonNum(el[k])
     ELSE IF k = "points"
          THEN [i \in 1..Len(el.points) |-> Pt(JsonNum(el.points[i].x), JsonNum(el.points[i].y))]
          ELSE el[k]]

StringifyAll(els) == [i \in 1..Len(els) |-> Stringify(els[i])]

StringifyHistory(h) == [i \in 1..Len(h) |-> StringifyAll(h[i])]

DefaultViewport == [x |-> 0, y |-> 0, scale |-> ScaleUnit]

HistoryLimit == 50

Min2(a, b) == IF a <= b THEN a ELSE b
Max2(a, b) == IF a >= b THEN a ELSE b

\* the oldest snapshots instead of the most recent ones
LimitedHistoryOldest(h) == SubSeq(h, 1, Min2(Len(h), HistoryLimit))

\* history.slice(-50)
LimitedHistory(h) == SubSeq(h, Max2(1, Len(h) - HistoryLimit + 1), Len(h))

\* the save-history effect of the page
SaveHistory(store, h, i) ==
  [store EXCEPT !.canvasHistory = Ok(StringifyHistory(LimitedHistory(h))),
                !.canvasHistoryIndex = Ok(Min2(i, Len(LimitedHistory(h)) - 1))]

\* history[historyIndex] || []
CurrentSnapshot(h, i) == IF i >= 0 /\ i < Len(h) THEN h[i + 1] ELSE <<>>

\* a fallback that leaves the two keys alone when its own write fails
SaveHistoryQuotaKeepingKeys(store, h, i, failMain, failBack) ==
  LET first == IF failMain = 1 THEN store
               ELSE [store EXCEPT !.canvasHistory = Ok(StringifyHistory(LimitedHistory(h)))]
  IN IF failMain = 0 THEN SaveHistory(store, h, i)
     ELSE IF failBack = 0
          THEN [first EXCEPT !.canvasHistory = Ok(<<StringifyAll(CurrentSnapshot(h, i))>>),
                             !.canvasHistoryIndex = Ok(0)]
          ELSE first

\* the save-history effect when localStorage.setItem throws QuotaExceededError.
\* failMain: which write of the first attempt throws (0: none, 1: the write of
\* canvasHistory, 2: the write of canvasHistoryIndex); failBack: the same for
\* the fallback that writes the current snapshot alone
SaveHistoryQuota(store, h, i, failMain, failBack) ==
  LET first == IF failMain = 1 THEN store
               ELSE [store EXCEPT !.canvasHistory = Ok(StringifyHistory(LimitedHistory(h)))]
  IN IF failMain = 0 THEN SaveHistory(store, h, i)
     ELSE IF failBack = 0
          THEN [first EXCEPT !.canvasHistory = Ok(<<StringifyAll(CurrentSnapshot(h, i))>>),
                             !.canvasHistoryIndex = Ok(0)]
          ELSE [first EXCEPT !.canvasHistory = Missing, !.canvasHistoryIndex = Missing]

-----------------------------------------------------------------------------
(* Element store operations *)

ISqrt(n) == CHOOSE r \in 0..200 : r * r <= n /\ (r + 1) * (r + 1) > n

IsWest(handle) == handle \in {"nw", "sw", "w"}
IsNorth(handle) == handle \in {"nw", "n", "ne"}
IsCorner(handle) == handle \in {"nw", "ne", "se", "sw"}
MinSize == 10
MinFontSize == 8

\* candidate bounds in which a corner handle acts as the e or w handle of its
\* side (what a corner handle must not do)
CandidateBoundsWidthOnly(handle, sb, dx, dy) ==
  [x |-> IF IsWest(handle) THEN Add(sb.x, dx) ELSE sb.x,
   y |-> IF handle = "n" THEN Add(sb.y, dy) ELSE sb.y,
   width |-> IF IsWest(handle) THEN Sub(sb.width, dx)
             ELSE IF handle \in {"ne", "e", "se"} THEN Add(sb.width, dx)
             ELSE sb.width,
   height |-> IF handle = "n" THEN Sub(sb.height, dy)
              ELSE IF handle = "s" THEN Add(sb.height, dy)
              ELSE sb.height]

\* candidate bounds for a handle and a drag delta, before the minimum-size clamp
CandidateBounds(handle, sb, dx, dy) ==
  [x |-> IF IsWest(handle) THEN Add(sb.x, dx) ELSE sb.x,
   y |-> IF IsNorth(handle) THEN Add(sb.y, dy) ELSE sb.y,
   width |-> IF IsWest(handle) THEN Sub(sb.width, dx)
             ELSE IF handle \in {"ne", "e", "se"} THEN Add(sb.width, dx)
             ELSE sb.width,
   height |-> IF IsNorth(handle) THEN Sub(sb.height, dy)
              ELSE IF handle \in {"se", "s", "sw"} THEN Add(sb.height, dy)
              ELSE sb.height]

\* "Ensure minimum size"
ClampBounds(handle, sb, c) ==
  [x |-> IF Lt(c.width, MinSize) /\ IsWest(handle)
         THEN Sub(Add(sb.x, sb.width), MinSize) ELSE c.x,
   y |-> IF Lt(c.height, MinSize) /\ IsNorth(handle)
         THEN Sub(Add(sb.y, sb.height), MinSize) ELSE c.y,
   width |-> IF Lt(c.width, MinSize) THEN MinSize ELSE c.width,
   height |-> IF Lt(c.height, MinSize) THEN MinSize ELSE c.height]

\* an image resize that stretches freely with every handle (what a corner
\* handle must not do)
resizeImageFree(el, handle, sb, nb) ==
  [el EXCEPT !.x = nb.x, !.y = nb.y, !.width = nb.width, !.height = nb.height]

resizeImage(el, handle, sb, nb) ==
  IF IsCorner(handle)
  THEN LET widthChange == Abs(Sub(nb.width, sb.width))
           heightChange == Abs(Sub(nb.height, sb.height))
           byWidth == Lt(heightChange, widthChange)
           finalWidth == IF byWidth THEN nb.width ELSE Scale(nb.height, sb.width, sb.height)
           finalHeight == IF byWidth THEN Scale(nb.width, sb.height, sb.width) ELSE nb.height
           finalX == IF handle \in {"nw", "sw"}
                     THEN Sub(Add(sb.x, sb.width), finalWidth) ELSE nb.x
           finalY == IF handle \in {"nw", "ne"}
                     THEN Sub(Add(sb.y, sb.height), finalHeight) ELSE nb.y
       IN [el EXCEPT !.x = finalX, !.y = finalY, !.width = finalWidth, !.height = finalHeight]
  ELSE [el EXCEPT !.x = nb.x, !.y = nb.y, !.width = nb.width, !.height = nb.height]

\* the per-variant mapping of the new bounds nb onto the element
applyResize(el, handle, sb, nb) ==
  CASE el.type \in {"rectangle", "ellipse", "diamond"} ->
         [el EXCEPT !.x = nb.x, !.y = nb.y, !.width = nb.width, !.height = nb.height]
    [] el.type = "image" -> resizeImage(el, handle, sb, nb)
    [] el.type = "circle" ->
         LET radius == Div(MathMax(nb.width, nb.height), 2)
         IN [el EXCEPT !.x = Add(nb.x, radius), !.y = Add(nb.y, radius), !.radius = radius]
    [] el.type \in {"line", "arrow"} ->
         [el EXCEPT !.startX = Add(nb.x, Scale(Sub(el.startX, sb.x), nb.width, sb.width)),
                    !.startY = Add(nb.y, Scale(Sub(el.startY, sb.y), nb.height, sb.height)),
                    !.endX = Add(nb.x, Scale(Sub(el.endX, sb.x), nb.width, sb.width)),
                    !.endY = Add(nb.y, Scale(Sub(el.endY, sb.y), nb.height, sb.height))]
    [] el.type = "text" ->
         [el EXCEPT !.x = nb.x, !.y = Add(nb.y, nb.height),
                    !.fontSize = MathMax(MinFontSize * FontUnit,
                                         Scale(el.fontSize, nb.height, sb.height))]
    [] el.type = "path" ->
         [el EXCEPT !.points =
            [i \in 1..Len(el.points) |->
               Pt(Add(nb.x, Scale(Sub(el.points[i].x, sb.x), nb.width, MathMax(sb.width, 1))),
                  Add(nb.y, Scale(Sub(el.points[i].y, sb.y), nb.height, MathMax(sb.height, 1))))]]
    [] OTHER -> el

resizeElement(el, handle, sb, dx, dy) ==
  applyResize(el, handle, sb, ClampBounds(handle, sb, CandidateBounds(handle, sb, dx, dy)))

\* a move that leaves the far end of a line and the tail of a path where they
\* were (what a move must not do)
moveElementAnchorOnly(el, dxCanvas, dyCanvas) ==
  CASE el.type \in {"rectangle", "ellipse", "diamond", "text", "image", "circle"} ->
         [el EXCEPT !.x = Add(el.x, dxCanvas), !.y = Add(el.y, dyCanvas)]
    [] el.type \in {"line", "arrow"} ->
         [el EXCEPT !.startX = Add(el.startX, dxCanvas), !.startY = Add(el.startY, dyCanvas)]
    [] el.type = "path" ->
         [el EXCEPT !.points = [i \in 1..Len(el.points) |->
                                  IF i = 1
                                  THEN Pt(Add(el.points[i].x, dxCanvas), Add(el.points[i].y, dyCanvas))
                                  ELSE el.points[i]]]
    [] OTHER -> el

moveElement(el, dxCanvas, dyCanvas) ==
  CASE el.type \in {"rectangle", "ellipse", "diamond", "text", "image", "circle"} ->
         [el EXCEPT !.x = Add(el.x, dxCanvas), !.y = Add(el.y, dyCanvas)]
    [] el.type \in {"line", "arrow"} ->
         [el EXCEPT !.startX = Add(el.startX, dxCanvas), !.startY = Add(el.startY, dyCanvas),
                    !.endX = Add(el.endX, dxCanvas), !.endY = Add(el.endY, dyCanvas)]
    [] el.type = "path" ->
         [el EXCEPT !.points = [i \in 1..Len(el.points) |->
                                  Pt(Add(el.points[i].x, dxCanvas), Add(el.points[i].y, dyCanvas))]]
    [] OTHER -> el

CloneOffset == 20
CloneKeys == {"x", "y", "startX", "startY", "endX", "endY"}

\* { ...el, id, x: 'x' in el ? el.x + 20 : undefined, ... }
cloneElement(el, newId) ==
  [k \in DOMAIN el \cup CloneKeys |->
     IF k = "id" THEN newId
     ELSE IF k \in CloneKeys
          THEN (IF HasKey(el, k) THEN Add(el[k], CloneOffset) ELSE Undefined)
          ELSE el[k]]

\* ids of the clones of one duplicate / paste: the clock value followed by a
\* Math.random() draw; the draws of a session are pairwise different
cloneAll(els, t, firstDraw) ==
  [i \in 1..Len(els) |-> cloneElement(els[i], <<t, firstDraw + i>>)]

newDraft(toolName, t, point) ==
  CASE toolName = "pen" -> [id |-> <<t>>, type |-> "path", points |-> <<point>>]
    [] toolName \in {"rectangle", "ellipse", "diamond"} ->
         [id |-> <<t>>, type |-> toolName, x |-> point.x, y |-> point.y, width |-> 0, height |-> 0]
    [] toolName = "circle" ->
         [id |-> <<t>>, type |-> "circle", x |-> point.x, y |-> point.y, radius |-> 0]
    [] toolName \in {"line", "arrow"} ->
         [id |-> <<t>>, type |-> toolName, startX |-> point.x, startY |-> point.y,
          endX |-> point.x, endY |-> point.y]
    [] OTHER -> NoElement

\* a draft update that stores the size of a rectangle, ellipse or diamond
\* without its sign (what a draft must not do)
updateDraftUnsigned(el, point) ==
  CASE el.type = "path" -> [el EXCEPT !.points = Append(el.points, point)]
    [] el.type \in {"rectangle", "ellipse", "diamond"} ->
         [el EXCEPT !.width = Abs(point.x - el.x), !.height = Abs(point.y - el.y)]
    [] el.type = "circle" ->
         [el EXCEPT !.radius = ISqrt((point.x - el.x) * (point.x - el.x)
                                     + (point.y - el.y) * (point.y - el.y))]
    [] el.type \in {"line", "arrow"} -> [el EXCEPT !.endX = point.x, !.endY = point.y]
    [] OTHER -> el

updateDraft(el, point) ==
  CASE el.type = "path" -> [el EXCEPT !.points = Append(el.points, point)]
    [] el.type \in {"rectangle", "ellipse", "diamond"} ->
         [el EXCEPT !.width = point.x - el.x, !.height = point.y - el.y]
    [] el.type = "circle" ->
         [el EXCEPT !.radius = ISqrt((point.x - el.x) * (point.x - el.x)
                                     + (point.y - el.y) * (point.y - el.y))]
    [] el.type \in {"line", "arrow"} -> [el EXCEPT !.endX = point.x, !.endY = point.y]
    [] OTHER -> el

-----------------------------------------------------------------------------
(* Mount: the first render, the load effects, the re-render they cause and *)
(* the save effects of both renders                                        *)

LoadedElements(store) ==
  IF store.canvasElements.st = "ok" THEN store.canvasElements.v ELSE <<>>
\* a load effect with one try block around both keys: corrupt elements
\* would take the viewport with them
LoadedViewportInOneTry(store) ==
  IF store.canvasViewport.st = "ok" /\ store.canvasElements.st # "bad"
  THEN store.canvasViewport.v ELSE DefaultViewport
LoadedViewport(store) ==
  IF store.canvasViewport.st = "ok" THEN store.canvasViewport.v ELSE DefaultViewport
LoadedHistory(store) ==
  IF store.canvasHistory.st = "ok" THEN store.canvasHistory.v ELSE << <<>> >>
LoadedIndex(store) ==
  IF store.canvasHistoryIndex.st = "ok" THEN store.canvasHistoryIndex.v ELSE 0

\* a notification that keeps the snapshots after the cursor
PushHistoryKeepingRedo(h, seenIndex, els) == Append(h, els)

\* handleElementsChange(els), called through a callback that closed over the
\* cursor value seenIndex
PushHistory(h, seenIndex, els) == Append(SubSeq(h, 1, Min2(seenIndex + 1, Len(h))), els)

MountState(store) ==
  LET els == LoadedElements(store)
      h == LoadedHistory(store)
      i == LoadedIndex(store)
      saved == [SaveHistory(store, h, i) EXCEPT !.canvasViewport = Ok(LoadedViewport(store))]
  IN [elements |-> els,
      viewport |-> LoadedViewport(store),
      rHistory |-> h,
      rIndex |-> i,
      history |-> IF Len(els) > 0 THEN PushHistory(h, i, els) ELSE h,
      historyIndex |-> IF Len(els) > 0 THEN i + 1 ELSE i,
      ls |-> IF Len(els) > 0
             THEN [saved EXCEPT !.canvasElements = Ok(StringifyAll(els))]
             ELSE saved]

NoTextInput == [x |-> 0, y |-> 0, show |-> FALSE]

EmptyStorage ==
  [canvasElements |-> Missing, canvasViewport |-> Missing, canvasHistory |-> Missing,
   canvasHistoryIndex |-> Missing, clipboard |-> Missing]

\* storage left by an earlier session whose last history write fell back to
\* the single current snapshot
StorageWith(els) ==
  [canvasElements |-> Ok(els), canvasViewport |-> Ok(DefaultViewport),
   canvasHistory |-> Ok(<<els>>), canvasHistoryIndex |-> Ok(0), clipboard |-> Missing]

\* the image elements a render pass draws: drawImage paints nothing while the
\* HTMLImageElement is still decoding
DrawnImages(els, done) ==
  {els[i].id : i \in {j \in 1..Len(els) : els[j].type = "image" /\ els[j].id \in done}}

\* the state after mount.  early: the images whose decode completes before
\* the first render pass that has the loaded elements.  ev keeps the storage
\* that was found
InitDecoding(store, early) ==
  LET m == MountState(store)
  IN /\ elements = m.elements
     /\ viewport = m.viewport
     /\ history = m.history
     /\ historyIndex = m.historyIndex
     /\ rHistory = m.rHistory
     /\ rIndex = m.rIndex
     /\ ls = m.ls
     /\ isDrawing = FALSE
     /\ isPanning = FALSE
     /\ currentElement = NoElement
     /\ lastPanPoint = NoPoint
     /\ textInput = NoTextInput
     /\ selectedElements = {}
     /\ selectionBox = NoBox
     /\ resizeHandle = NoResize
     /\ tool = "pen"
     /\ now = 10
     /\ rnd = 0
     /\ steps = 0
     /\ ev = [op |-> "mount", gesture |-> "none", found |-> store]
     /\ decoded = early
     /\ painted = DrawnImages(m.elements, early)

\* mount with every decode still running at the first render pass
InitFrom(store) == InitDecoding(store, {})

\* window.location.reload(): every component state is rebuilt from storage,
\* every image is decoded again
ReloadFrom(store) ==
  LET m == MountState(store)
  IN /\ elements' = m.elements
     /\ viewport' = m.viewport
     /\ history' = m.history
     /\ historyIndex' = m.historyIndex
     /\ rHistory' = m.rHistory
     /\ rIndex' = m.rIndex
     /\ ls' = m.ls
     /\ isDrawing' = FALSE
     /\ isPanning' = FALSE
     /\ currentElement' = NoElement
     /\ lastPanPoint' = NoPoint
     /\ textInput' = NoTextInput
     /\ selectedElements' = {}
     /\ selectionBox' = NoBox
     /\ resizeHandle' = NoResize
     /\ tool' = "pen"
     /\ decoded' = {}
     /\ painted' = {}

\* the draw effect: a render pass runs when one of the dependencies of draw
\* has changed; decoding goes on by itself
Repaint ==
  /\ decoded' = decoded
  /\ painted' = IF <<elements', currentElement', viewport', selectionBox', selectedElements'>>
                    # <<elements, currentElement, viewport, selectionBox, selectedElements>>
                 THEN DrawnImages(elements', decoded)
                 ELSE painted

\* one more input event; ev keeps the event and the kind of the last
\* pointer-down (the gesture the event belongs to)
Step(op, gesture) ==
  /\ steps' = steps + 1
  /\ ev' = [op |-> op, gesture |-> gesture]

\* an event that ends something or only switches a mode: it cannot grow the
\* state, so it is not counted
Free(op, gesture) ==
  /\ steps' = steps
  /\ ev' = [op |-> op, gesture |-> gesture]

\* setElements(els) followed by the render it causes and the save-elements
\* effect of that render (persist, then notify the page)
SetElements(els, store) ==
  /\ elements' = els
  /\ IF Len(els) > 0
     THEN /\ ls' = [store EXCEPT !.canvasElements = Ok(StringifyAll(els))]
          /\ history' = PushHistory(history, rIndex, els)
          /\ historyIndex' = historyIndex + 1
     ELSE /\ ls' = store
          /\ UNCHANGED <<history, historyIndex>>

\* setViewport(v) followed by the save-viewport effect
SetViewport(v) ==
  /\ viewport' = v
  /\ ls' = [ls EXCEPT !.canvasViewport = Ok(v)]

-----------------------------------------------------------------------------
(* Canvas: pointer-down *)

PanTrigger(button, shiftKey) ==
  button = 1 \/ (button = 0 /\ shiftKey) \/ tool = "hand"

PaddedBounds(bounds) ==
  [x |-> Sub(bounds.x, SelectionPadding), y |-> Sub(bounds.y, SelectionPadding),
   width |-> Add(bounds.width, 2 * SelectionPadding),
   height |-> Add(bounds.height, 2 * SelectionPadding)]

\* elements.find(el => el.id === id): index of the first match, 0 if none
FindIndex(els, id) ==
  LET idxs == {i \in 1..Len(els) : els[i].id = id}
  IN IF idxs = {} THEN 0 ELSE CHOOSE i \in idxs : \A j \in idxs : i <= j

\* the resize handle of the single selected element under the point, or "none"
HandleUnder(canvasPoint) ==
  IF Cardinality(selectedElements) # 1 THEN "none"
  ELSE LET selectedId == CHOOSE id \in selectedElements : TRUE
           k == FindIndex(elements, selectedId)
       IN IF k = 0 THEN "none"
          ELSE LET bounds == getElementBounds(elements[k])
               IN IF bounds = NoBounds THEN "none"
                  ELSE getHandleAtPoint(canvasPoint, PaddedBounds(bounds))

\* the hit-test that would take the first element in store order
ClickedIndexFirst(canvasPoint) ==
  LET idxs == {i \in 1..Len(elements) : isPointInElement(canvasPoint, elements[i])}
  IN IF idxs = {} THEN 0 ELSE CHOOSE i \in idxs : \A j \in idxs : i <= j

\* [...elements].reverse().find(el => isPointInElement(p, el)): index, 0 if none
ClickedIndex(canvasPoint) ==
  LET idxs == {i \in 1..Len(elements) : isPointInElement(canvasPoint, elements[i])}
  IN IF idxs = {} THEN 0 ELSE CHOOSE i \in idxs : \A j \in idxs : i >= j

RemoveId(els, id) == SelectSeq(els, LAMBDA el : el.id # id)

MouseDownPan(p, button, shiftKey) ==
  /\ steps < MaxSteps
  /\ PanTrigger(button, shiftKey)
  /\ isPanning' = TRUE
  /\ lastPanPoint' = p
  /\ UNCHANGED <<elements, isDrawing, currentElement, viewport, textInput, selectedElements,
                 selectionBox, resizeHandle, tool, history, historyIndex, rHistory, rIndex,
                 ls, now, rnd>>
  /\ Repaint
  /\ Step("mouseDown", "pan")

\* the resize entry that would keep the padded selection bounds as start bounds
MouseDownResizePaddedStart(p, button, shiftKey) ==
  LET canvasPoint == screenToCanvas(viewport, p.x, p.y)
      handle == HandleUnder(canvasPoint)
      selectedId == CHOOSE id \in selectedElements : TRUE
  IN /\ steps < MaxSteps
     /\ ~PanTrigger(button, shiftKey)
     /\ handle # "none"
     /\ resizeHandle' = [handle |-> handle, elementId |-> selectedId,
                         startBounds |-> PaddedBounds(getElementBounds(
                                           elements[FindIndex(elements, selectedId)])),
                         startPoint |-> canvasPoint]
     /\ UNCHANGED <<elements, isDrawing, isPanning, currentElement, viewport, lastPanPoint,
                    textInput, selectedElements, selectionBox, tool, history, historyIndex,
                    rHistory, rIndex, ls, now, rnd>>
     /\ Repaint
     /\ steps' = steps + 1
     /\ ev' = [op |-> "mouseDown", gesture |-> "resize", button |-> button,
               shiftKey |-> shiftKey]

MouseDownResize(p, button, shiftKey) ==
  LET canvasPoint == screenToCanvas(viewport, p.x, p.y)
      handle == HandleUnder(canvasPoint)
      selectedId == CHOOSE id \in selectedElements : TRUE
  IN /\ steps < MaxSteps
     /\ ~PanTrigger(button, shiftKey)
     /\ handle # "none"
     /\ resizeHandle' = [handle |-> handle, elementId |-> selectedId,
                         startBounds |-> getElementBounds(elements[FindIndex(elements, selectedId)]),
                         startPoint |-> canvasPoint]
     /\ UNCHANGED <<elements, isDrawing, isPanning, currentElement, viewport, lastPanPoint,
                    textInput, selectedElements, selectionBox, tool, history, historyIndex,
                    rHistory, rIndex, ls, now, rnd>>
     /\ Repaint
     /\ steps' = steps + 1
     /\ ev' = [op |-> "mouseDown", gesture |-> "resize", button |-> button,
               shiftKey |-> shiftKey]

MouseDownElement(p, button, shiftKey, ctrlKey) ==
  LET canvasPoint == screenToCanvas(viewport, p.x, p.y)
      k == ClickedIndex(canvasPoint)
      id == elements[k].id
  IN /\ steps < MaxSteps
     /\ ~PanTrigger(button, shiftKey)
     /\ HandleUnder(canvasPoint) = "none"
     /\ tool # "eraser"
     /\ k # 0
     /\ selectedElements' = IF ~ctrlKey THEN {id}
                            ELSE IF id \in selectedElements THEN selectedElements \ {id}
                            ELSE selectedElements \cup {id}
     /\ isPanning' = TRUE
     /\ lastPanPoint' = p
     /\ UNCHANGED <<elements, isDrawing, currentElement, viewport, textInput, selectionBox,
                    resizeHandle, tool, history, historyIndex, rHistory, rIndex, ls, now, rnd>>
     /\ Repaint
     /\ steps' = steps + 1
     /\ ev' = [op |-> "mouseDown", gesture |-> "element", ctrlKey |-> ctrlKey]

MouseDownSelect(p, button, shiftKey, ctrlKey) ==
  LET canvasPoint == screenToCanvas(viewport, p.x, p.y)
  IN /\ steps < MaxSteps
     /\ ~PanTrigger(button, shiftKey)
     /\ HandleUnder(canvasPoint) = "none"
     /\ ClickedIndex(canvasPoint) = 0
     /\ tool = "select"
     /\ selectedElements' = IF ~ctrlKey THEN {} ELSE selectedElements
     /\ selectionBox' = [start |-> canvasPoint, end |-> canvasPoint]
     /\ UNCHANGED <<elements, isDrawing, isPanning, currentElement, viewport, lastPanPoint,
                    textInput, resizeHandle, tool, history, historyIndex, rHistory, rIndex,
                    ls, now, rnd>>
     /\ Repaint
     /\ Step("mouseDown", IF ctrlKey THEN "marqueeCtrl" ELSE "marquee")

MouseDownText(p, button, shiftKey) ==
  LET canvasPoint == screenToCanvas(viewport, p.x, p.y)
  IN /\ steps < MaxSteps
     /\ ~PanTrigger(button, shiftKey)
     /\ HandleUnder(canvasPoint) = "none"
     /\ ClickedIndex(canvasPoint) = 0
     /\ tool = "text"
     /\ textInput' = [x |-> p.x, y |-> p.y, show |-> TRUE]
     /\ UNCHANGED <<elements, isDrawing, isPanning, currentElement, viewport, lastPanPoint,
                    selectedElements, selectionBox, resizeHandle, tool, history, historyIndex,
                    rHistory, rIndex, ls, now, rnd>>
     /\ Repaint
     /\ steps' = steps + 1
     /\ ev' = [op |-> "mouseDown", gesture |-> "text", at |-> p]

MouseDownEraser(p, button, shiftKey) ==
  LET canvasPoint == screenToCanvas(viewport, p.x, p.y)
      k == ClickedIndex(canvasPoint)
  IN /\ steps < MaxSteps
     /\ ~PanTrigger(button, shiftKey)
     /\ HandleUnder(canvasPoint) = "none"
     /\ tool = "eraser"
     /\ k # 0
     /\ SetElements(RemoveId(elements, elements[k].id), ls)
     /\ UNCHANGED <<isDrawing, isPanning, currentElement, viewport, lastPanPoint, textInput,
                    selectedElements, selectionBox, resizeHandle, tool, rHistory, rIndex,
                    now, rnd>>
     /\ Repaint
     /\ steps' = steps + 1
     /\ ev' = [op |-> "erase", gesture |-> "none", at |-> canvasPoint]

\* the eraser on a point that no element contains: the handler returns without
\* a state update
MouseDownEraserMiss(p, button, shiftKey) ==
  LET canvasPoint == screenToCanvas(viewport, p.x, p.y)
  IN /\ ~PanTrigger(button, shiftKey)
     /\ HandleUnder(canvasPoint) = "none"
     /\ tool = "eraser"
     /\ ClickedIndex(canvasPoint) = 0
     /\ UNCHANGED <<elements, isDrawing, isPanning, currentElement, viewport, lastPanPoint,
                    textInput, selectedElements, selectionBox, resizeHandle, tool, history,
                    historyIndex, rHistory, rIndex, ls, now, rnd, decoded, painted, steps>>
     /\ ev' = [op |-> "eraseMiss", gesture |-> "none", at |-> canvasPoint]

\* no gesture is in progress
Idle ==
  /\ ~isDrawing /\ currentElement = NoElement /\ ~isPanning /\ lastPanPoint = NoPoint
  /\ selectionBox = NoBox /\ resizeHandle = NoResize /\ ~textInput.show

\* the record of a drawing gesture kept in ev while nothing but its
\* pointer-down and pointer-moves happens: the world points visited so far, the
\* collection and the tool at pointer-down and whether the pointer-down came
\* in Idle; a trail of length 0 means that no such record exists
Drawn ==
  IF ev.gesture = "draw" /\ ev.op \in {"mouseDown", "moveDraw"}
  THEN [trail |-> ev.trail, store |-> ev.store, tool |-> ev.tool, idle |-> ev.idle]
  ELSE [trail |-> <<>>, store |-> <<>>, tool |-> "none", idle |-> FALSE]

MouseDownDraw(p, button, shiftKey, t) ==
  LET canvasPoint == screenToCanvas(viewport, p.x, p.y)
      draft == newDraft(tool, t, canvasPoint)
  IN /\ steps < MaxSteps
     /\ ~PanTrigger(button, shiftKey)
     /\ HandleUnder(canvasPoint) = "none"
     /\ ClickedIndex(canvasPoint) = 0
     /\ tool \notin {"select", "text", "eraser"}
     /\ t \in now..MaxNow
     /\ now' = t
     /\ isDrawing' = TRUE
     /\ currentElement' = IF draft = NoElement THEN currentElement ELSE draft
     /\ UNCHANGED <<elements, isPanning, viewport, lastPanPoint, textInput, selectedElements,
                    selectionBox, resizeHandle, tool, history, historyIndex, rHistory, rIndex,
                    ls, rnd>>
     /\ steps' = steps + 1
     /\ Repaint
     /\ ev' = [op |-> "mouseDown", gesture |-> "draw", trail |-> <<canvasPoint>>,
               store |-> elements, tool |-> tool, idle |-> Idle]

-----------------------------------------------------------------------------
(* Canvas: pointer-move *)

\* a resize that would take the first element when its target is gone
MouseMoveResizeOrFirst(p) ==
  LET canvasPoint == screenToCanvas(viewport, p.x, p.y)
      dx == Sub(canvasPoint.x, resizeHandle.startPoint.x)
      dy == Sub(canvasPoint.y, resizeHandle.startPoint.y)
      k == FindIndex(elements, resizeHandle.elementId)
      resized == [i \in 1..Len(elements) |->
                    IF elements[i].id # resizeHandle.elementId /\ ~(k = 0 /\ i = 1)
                    THEN elements[i]
                    ELSE resizeElement(elements[i], resizeHandle.handle,
                                       resizeHandle.startBounds, dx, dy)]
  IN /\ steps < MaxSteps
     /\ resizeHandle # NoResize
     /\ SetElements(resized, ls)
     /\ UNCHANGED <<isDrawing, isPanning, currentElement, viewport, lastPanPoint, textInput,
                    selectedElements, selectionBox, resizeHandle, tool, rHistory, rIndex,
                    now, rnd>>
     /\ steps' = steps + 1
     /\ Repaint
     /\ ev' = [op |-> "moveResize", gesture |-> ev.gesture, dx |-> dx, dy |-> dy]

\* ev keeps the world delta between the pointer and the start point
MouseMoveResize(p) ==
  LET canvasPoint == screenToCanvas(viewport, p.x, p.y)
      dx == Sub(canvasPoint.x, resizeHandle.startPoint.x)
      dy == Sub(canvasPoint.y, resizeHandle.startPoint.y)
      resized == [i \in 1..Len(elements) |->
                    IF elements[i].id # resizeHandle.elementId THEN elements[i]
                    ELSE resizeElement(elements[i], resizeHandle.handle,
                                       resizeHandle.startBounds, dx, dy)]
  IN /\ steps < MaxSteps
     /\ resizeHandle # NoResize
     /\ SetElements(resized, ls)
     /\ UNCHANGED <<isDrawing, isPanning, currentElement, viewport, lastPanPoint, textInput,
                    selectedElements, selectionBox, resizeHandle, tool, rHistory, rIndex,
                    now, rnd>>
     /\ steps' = steps + 1
     /\ Repaint
     /\ ev' = [op |-> "moveResize", gesture |-> ev.gesture, dx |-> dx, dy |-> dy]

\* a second pointer-move event of a resize at the place of the one just
\* handled: the updater maps the element that the first one left.  ev keeps
\* that element
MouseMoveResizeRepeat ==
  LET resized == [i \in 1..Len(elements) |->
                    IF elements[i].id # resizeHandle.elementId THEN elements[i]
                    ELSE resizeElement(elements[i], resizeHandle.handle,
                                       resizeHandle.startBounds, ev.dx, ev.dy)]
      k == FindIndex(elements, resizeHandle.elementId)
  IN /\ ev.op = "moveResize"
     /\ resizeHandle # NoResize
     /\ SetElements(resized, ls)
     /\ UNCHANGED <<isDrawing, isPanning, currentElement, viewport, lastPanPoint, textInput,
                    selectedElements, selectionBox, resizeHandle, tool, rHistory, rIndex,
                    now, rnd>>
     /\ steps' = steps
     /\ Repaint
     /\ ev' = [op |-> "moveResizeRepeat", gesture |-> ev.gesture, dx |-> ev.dx, dy |-> ev.dy,
               once |-> IF k = 0 THEN NoElement ELSE elements[k]]

PanActive == resizeHandle = NoResize /\ isPanning /\ lastPanPoint # NoPoint

\* the pan branch of pointer-move when the select tool is active and
\* something is selected: the selected elements are translated
MouseMoveSelection(p) ==
  LET dx == p.x - lastPanPoint.x
      dy == p.y - lastPanPoint.y
      dxCanvas == Quot(dx * ScaleUnit, viewport.scale)
      dyCanvas == Quot(dy * ScaleUnit, viewport.scale)
      moved == [i \in 1..Len(elements) |->
                  IF elements[i].id \in selectedElements
                  THEN moveElement(elements[i], dxCanvas, dyCanvas)
                  ELSE elements[i]]
  IN /\ steps < MaxSteps
     /\ PanActive
     /\ tool = "select" /\ selectedElements # {}
     /\ SetElements(moved, ls)
     /\ lastPanPoint' = p
     /\ UNCHANGED <<isDrawing, isPanning, currentElement, viewport, textInput,
                    selectedElements, selectionBox, resizeHandle, tool, rHistory, rIndex,
                    now, rnd>>
     /\ Repaint
     /\ Step("moveSelection", ev.gesture)

\* two pointer-move events of a move handled before the next render: both
\* handlers closed over the same lastPanPoint, selection and scale, the
\* updaters are applied one after the other and the save-elements effect runs
\* once
MouseMoveSelectionTwice(p, q) ==
  LET Delta(to) == Pt(Quot((to.x - lastPanPoint.x) * ScaleUnit, viewport.scale),
                      Quot((to.y - lastPanPoint.y) * ScaleUnit, viewport.scale))
      Moved(els, to) == [i \in 1..Len(els) |->
                          IF els[i].id \in selectedElements
                          THEN moveElement(els[i], Delta(to).x, Delta(to).y)
                          ELSE els[i]]
  IN /\ steps < MaxSteps
     /\ PanActive
     /\ tool = "select" /\ selectedElements # {}
     /\ SetElements(Moved(Moved(elements, p), q), ls)
     /\ lastPanPoint' = q
     /\ UNCHANGED <<isDrawing, isPanning, currentElement, viewport, textInput,
                    selectedElements, selectionBox, resizeHandle, tool, rHistory, rIndex,
                    now, rnd>>
     /\ Repaint
     /\ Step("moveSelectionTwice", ev.gesture)

\* the pan branch of pointer-move otherwise: the viewport is translated
MouseMovePan(p) ==
  LET dx == p.x - lastPanPoint.x
      dy == p.y - lastPanPoint.y
  IN /\ steps < MaxSteps
     /\ PanActive
     /\ ~(tool = "select" /\ selectedElements # {})
     /\ SetViewport([viewport EXCEPT !.x = viewport.x + dx, !.y = viewport.y + dy])
     /\ lastPanPoint' = p
     /\ UNCHANGED <<elements, isDrawing, isPanning, currentElement, textInput,
                    selectedElements, selectionBox, resizeHandle, tool, history, historyIndex,
                    rHistory, rIndex, now, rnd>>
     /\ Repaint
     /\ Step("movePan", ev.gesture)

MouseMoveBox(p) ==
  LET canvasPoint == screenToCanvas(viewport, p.x, p.y)
  IN /\ steps < MaxSteps
     /\ resizeHandle = NoResize
     /\ ~PanActive
     /\ selectionBox # NoBox
     /\ selectionBox' = [selectionBox EXCEPT !.end = canvasPoint]
     /\ UNCHANGED <<elements, isDrawing, isPanning, currentElement, viewport, lastPanPoint,
                    textInput, selectedElements, resizeHandle, tool, history, historyIndex,
                    rHistory, rIndex, ls, now, rnd>>
     /\ Repaint
     /\ Step("moveBox", ev.gesture)

MouseMoveDraw(p) ==
  LET canvasPoint == screenToCanvas(viewport, p.x, p.y)
  IN /\ steps < MaxSteps
     /\ resizeHandle = NoResize
     /\ ~PanActive
     /\ selectionBox = NoBox
     /\ isDrawing /\ currentElement # NoElement
     /\ currentElement' = updateDraft(currentElement, canvasPoint)
     /\ UNCHANGED <<elements, isDrawing, isPanning, viewport, lastPanPoint, textInput,
                    selectedElements, selectionBox, resizeHandle, tool, history, historyIndex,
                    rHistory, rIndex, ls, now, rnd>>
     /\ steps' = steps + 1
     /\ Repaint
     /\ ev' = [op |-> "moveDraw", gesture |-> ev.gesture,
               trail |-> IF Len(Drawn.trail) > 0 THEN Append(Drawn.trail, canvasPoint) ELSE <<>>,
               store |-> Drawn.store, tool |-> Drawn.tool, idle |-> Drawn.idle]

-----------------------------------------------------------------------------
(* Canvas: pointer-up (also pointer-leave) *)

MouseUpResize ==
  /\ resizeHandle # NoResize
  /\ resizeHandle' = NoResize
  /\ UNCHANGED <<elements, isDrawing, isPanning, currentElement, viewport, lastPanPoint,
                 textInput, selectedElements, selectionBox, tool, history, historyIndex,
                 rHistory, rIndex, ls, now, rnd>>
  /\ Repaint
  /\ Free("upResize", ev.gesture)

\* a selection by intersection instead of containment (what the marquee must
\* not do)
BoxSelectionByIntersection(els, box) ==
  LET minX == MathMin(box.start.x, box.end.x)
      maxX == MathMax(box.start.x, box.end.x)
      minY == MathMin(box.start.y, box.end.y)
      maxY == MathMax(box.start.y, box.end.y)
      Touches(el) ==
        LET bounds == getElementBounds(el)
        IN /\ bounds # NoBounds
           /\ Le(bounds.x, maxX)
           /\ Ge(Add(bounds.x, bounds.width), minX)
           /\ Le(bounds.y, maxY)
           /\ Ge(Add(bounds.y, bounds.height), minY)
  IN {els[i].id : i \in {j \in 1..Len(els) : Touches(els[j])}}

\* ids of the elements whose bounds lie inside the selection box
BoxSelection(els, box) ==
  LET minX == MathMin(box.start.x, box.end.x)
      maxX == MathMax(box.start.x, box.end.x)
      minY == MathMin(box.start.y, box.end.y)
      maxY == MathMax(box.start.y, box.end.y)
      Inside(el) ==
        LET bounds == getElementBounds(el)
        IN /\ bounds # NoBounds
           /\ Ge(bounds.x, minX)
           /\ Le(Add(bounds.x, bounds.width), maxX)
           /\ Ge(bounds.y, minY)
           /\ Le(Add(bounds.y, bounds.height), maxY)
  IN {els[i].id : i \in {j \in 1..Len(els) : Inside(els[j])}}

MouseUpBox ==
  /\ resizeHandle = NoResize
  /\ selectionBox # NoBox
  /\ selectedElements' = BoxSelection(elements, selectionBox)
  /\ selectionBox' = NoBox
  /\ UNCHANGED <<elements, isDrawing, isPanning, currentElement, viewport, lastPanPoint,
                 textInput, resizeHandle, tool, history, historyIndex, rHistory, rIndex,
                 ls, now, rnd>>
  /\ steps' = steps
  /\ Repaint
  /\ ev' = [op |-> "upBox", gesture |-> ev.gesture, box |-> selectionBox,
            before |-> selectedElements]

MouseUpPan ==
  /\ resizeHandle = NoResize
  /\ selectionBox = NoBox
  /\ isPanning
  /\ isPanning' = FALSE
  /\ lastPanPoint' = NoPoint
  /\ UNCHANGED <<elements, isDrawing, currentElement, viewport, textInput, selectedElements,
                 selectionBox, resizeHandle, tool, history, historyIndex, rHistory, rIndex,
                 ls, now, rnd>>
  /\ Repaint
  /\ Free("upPan", ev.gesture)

\* the record of a pointer-up that reaches the last branch of handleMouseUp:
\* the drawing gesture it ends (if any), whether the tool is still the one of
\* the pointer-down, whether Escape came just before, and the collection
\* before it
UpEvent(op) ==
  [op |-> op, gesture |-> ev.gesture, trail |-> Drawn.trail, store |-> Drawn.store,
   tool |-> Drawn.tool, idle |-> Drawn.idle, toolChanged |-> Drawn.tool # tool,
   afterEscape |-> ev.op = "escape", before |-> elements]

MouseUpDraw ==
  /\ resizeHandle = NoResize
  /\ selectionBox = NoBox
  /\ ~isPanning
  /\ isDrawing
  /\ IF currentElement # NoElement
     THEN /\ SetElements(Append(elements, currentElement), ls)
          /\ currentElement' = NoElement
     ELSE UNCHANGED <<elements, ls, history, historyIndex, currentElement>>
  /\ isDrawing' = FALSE
  /\ UNCHANGED <<isPanning, viewport, lastPanPoint, textInput, selectedElements, selectionBox,
                 resizeHandle, tool, rHistory, rIndex, now, rnd>>
  /\ steps' = steps
  /\ Repaint
  /\ ev' = UpEvent("upDraw")

\* the last branch of handleMouseUp when nothing is being drawn: only
\* setIsDrawing(false), which changes nothing
MouseUpIdle ==
  /\ resizeHandle = NoResize
  /\ selectionBox = NoBox
  /\ ~isPanning
  /\ ~isDrawing
  /\ UNCHANGED <<canvasVars, tool, history, historyIndex, rHistory, rIndex, ls, now, rnd>>
  /\ steps' = steps
  /\ Repaint
  /\ ev' = UpEvent("upIdle")

-----------------------------------------------------------------------------
(* Canvas: wheel *)

MinScale == ScaleUnit \div 10
MaxScale == 10 * ScaleUnit

\* newScale of handleWheel, computed from the scale that the handler closed
\* over
wheelScale(seenScale, zoomIn) ==
  Max2(MinScale, Min2(MaxScale, Quot(seenScale * (IF zoomIn THEN 11 ELSE 9), 10)))

\* an updater that changes the scale and keeps the offset (what a zoom about
\* the cursor must not do)
wheelViewportKeepingOffset(prev, newScale, mouse) ==
  [x |-> prev.x, y |-> prev.y, scale |-> newScale]

\* the updater that handleWheel passes to setViewport
wheelViewport(prev, newScale, mouse) ==
  [x |-> mouse.x - Quot((mouse.x - prev.x) * newScale, prev.scale),
   y |-> mouse.y - Quot((mouse.y - prev.y) * newScale, prev.scale),
   scale |-> newScale]

\* one wheel event, then the render and the save-viewport effect.  ev keeps
\* the viewport that the updater received
Wheel(p, zoomIn) ==
  /\ steps < MaxSteps
  /\ SetViewport(wheelViewport(viewport, wheelScale(viewport.scale, zoomIn), p))
  /\ UNCHANGED <<elements, isDrawing, isPanning, currentElement, lastPanPoint, textInput,
                 selectedElements, selectionBox, resizeHandle, tool, history, historyIndex,
                 rHistory, rIndex, now, rnd>>
  /\ steps' = steps + 1
  /\ Repaint
  /\ ev' = [op |-> "wheel", gesture |-> ev.gesture, events |-> 1, prev |-> viewport,
            at |-> p, zoomIn |-> zoomIn]

\* two wheel events handled before the next render: both handlers closed over
\* the same viewport, the updaters are applied one after the other.  ev keeps
\* the second event and the viewport that its updater received
WheelTwice(p, zoomIn1, zoomIn2) ==
  LET first == wheelViewport(viewport, wheelScale(viewport.scale, zoomIn1), p)
  IN /\ steps < MaxSteps
     /\ SetViewport(wheelViewport(first, wheelScale(viewport.scale, zoomIn2), p))
     /\ UNCHANGED <<elements, isDrawing, isPanning, currentElement, lastPanPoint, textInput,
                    selectedElements, selectionBox, resizeHandle, tool, history, historyIndex,
                    rHistory, rIndex, now, rnd>>
     /\ steps' = steps + 1
     /\ Repaint
     /\ ev' = [op |-> "wheel", gesture |-> ev.gesture, events |-> 2, prev |-> first,
               at |-> p, zoomIn |-> zoomIn2]

-----------------------------------------------------------------------------
(* Canvas: text input and keyboard *)

DefaultFontSize == 20

\* String.prototype.trim on the strings that are typed here
trim(s) == IF s \in {"", " ", "  "} THEN "" ELSE s

\* Enter in an input that would anchor the text at the screen point itself
TextSubmitAtScreenPoint(text, t) ==
  LET textElement == [id |-> <<t>>, type |-> "text", x |-> textInput.x, y |-> textInput.y,
                      text |-> text, fontSize |-> DefaultFontSize * FontUnit]
  IN /\ steps < MaxSteps
     /\ textInput.show
     /\ IF trim(text) # ""
        THEN /\ t \in now..MaxNow
             /\ now' = t
             /\ SetElements(Append(elements, textElement), ls)
        ELSE /\ t = now
             /\ UNCHANGED <<now, elements, ls, history, historyIndex>>
     /\ textInput' = NoTextInput
     /\ UNCHANGED <<isDrawing, isPanning, currentElement, viewport, lastPanPoint,
                    selectedElements, selectionBox, resizeHandle, tool, rHistory, rIndex, rnd>>
     /\ Repaint
     /\ steps' = steps + 1
     /\ ev' = [op |-> "textSubmit", gesture |-> ev.gesture, text |-> text]

\* ev keeps the content of the input
TextSubmit(text, t) ==
  LET canvasPoint == screenToCanvas(viewport, textInput.x, textInput.y)
      textElement == [id |-> <<t>>, type |-> "text", x |-> canvasPoint.x, y |-> canvasPoint.y,
                      text |-> text, fontSize |-> DefaultFontSize * FontUnit]
  IN /\ steps < MaxSteps
     /\ textInput.show
     /\ IF trim(text) # ""
        THEN /\ t \in now..MaxNow
             /\ now' = t
             /\ SetElements(Append(elements, textElement), ls)
        ELSE /\ t = now
             /\ UNCHANGED <<now, elements, ls, history, historyIndex>>
     /\ textInput' = NoTextInput
     /\ UNCHANGED <<isDrawing, isPanning, currentElement, viewport, lastPanPoint,
                    selectedElements, selectionBox, resizeHandle, tool, rHistory, rIndex, rnd>>
     /\ Repaint
     /\ steps' = steps + 1
     /\ ev' = [op |-> "textSubmit", gesture |-> ev.gesture, text |-> text]

\* Escape in the input, or the input losing focus
TextCancel ==
  /\ textInput.show
  /\ textInput' = NoTextInput
  /\ UNCHANGED <<elements, isDrawing, isPanning, currentElement, viewport, lastPanPoint,
                 selectedElements, selectionBox, resizeHandle, tool, history, historyIndex,
                 rHistory, rIndex, ls, now, rnd>>
  /\ Repaint
  /\ Free("textCancel", ev.gesture)

\* a deletion cannot grow the collection and leaves nothing selected, so it
\* is not counted
KeyDelete ==
  /\ selectedElements # {}
  /\ ~textInput.show
  /\ SetElements(SelectSeq(elements, LAMBDA el : el.id \notin selectedElements), ls)
  /\ selectedElements' = {}
  /\ UNCHANGED <<isDrawing, isPanning, currentElement, viewport, lastPanPoint, textInput,
                 selectionBox, resizeHandle, tool, rHistory, rIndex, now, rnd>>
  /\ Repaint
  /\ Free("delete", ev.gesture)

\* an Escape that drops the draft but leaves the drawing flag set
KeyEscapeDraftOnly ==
  /\ ~textInput.show
  /\ isDrawing \/ currentElement # NoElement \/ selectedElements # {}
  /\ IF isDrawing \/ currentElement # NoElement
     THEN currentElement' = NoElement /\ UNCHANGED <<isDrawing, selectedElements>>
     ELSE selectedElements' = {} /\ UNCHANGED <<isDrawing, currentElement>>
  /\ UNCHANGED <<elements, isPanning, viewport, lastPanPoint, textInput, selectionBox,
                 resizeHandle, tool, history, historyIndex, rHistory, rIndex, ls, now, rnd>>
  /\ steps' = steps
  /\ Repaint
  /\ ev' = [op |-> "escape", gesture |-> ev.gesture, draft |-> currentElement # NoElement,
            drawing |-> isDrawing, panning |-> isPanning, selected |-> selectedElements,
            before |-> elements]

\* ev keeps what Escape found: a draft, a drawing gesture, a pan or move
\* gesture, the selection, the collection
KeyEscape ==
  /\ isDrawing \/ currentElement # NoElement \/ selectedElements # {}
  /\ IF isDrawing \/ currentElement # NoElement
     THEN /\ currentElement' = NoElement
          /\ isDrawing' = FALSE
          /\ UNCHANGED selectedElements
     ELSE /\ selectedElements' = {}
          /\ UNCHANGED <<currentElement, isDrawing>>
  /\ UNCHANGED <<elements, isPanning, viewport, lastPanPoint, textInput, selectionBox,
                 resizeHandle, tool, history, historyIndex, rHistory, rIndex, ls, now, rnd>>
  /\ steps' = steps
  /\ Repaint
  /\ ev' = [op |-> "escape", gesture |-> ev.gesture, draft |-> currentElement # NoElement,
            drawing |-> isDrawing, panning |-> isPanning, selected |-> selectedElements,
            before |-> elements]

SelectedOf(els, sel) == SelectSeq(els, LAMBDA el : el.id \in sel)

KeyCopy ==
  /\ selectedElements # {}
  /\ ls' = [ls EXCEPT !.clipboard = Ok(StringifyAll(SelectedOf(elements, selectedElements)))]
  /\ UNCHANGED <<elements, isDrawing, isPanning, currentElement, viewport, lastPanPoint,
                 textInput, selectedElements, selectionBox, resizeHandle, tool, history,
                 historyIndex, rHistory, rIndex, now, rnd>>
  /\ Repaint
  /\ Free("copy", ev.gesture)

KeyPaste(t) ==
  LET copied == ls.clipboard.v
  IN /\ steps < MaxSteps
     /\ ls.clipboard.st = "ok"
     /\ t \in now..MaxNow
     /\ now' = t
     /\ rnd' = rnd + Len(copied)
     /\ SetElements(elements \o cloneAll(copied, t, rnd), ls)
     /\ UNCHANGED <<isDrawing, isPanning, currentElement, viewport, lastPanPoint, textInput,
                    selectedElements, selectionBox, resizeHandle, tool, rHistory, rIndex>>
     /\ Repaint
     /\ Step("paste", ev.gesture)

KeyDuplicate(t) ==
  LET selected == SelectedOf(elements, selectedElements)
  IN /\ steps < MaxSteps
     /\ selectedElements # {}
     /\ t \in now..MaxNow
     /\ now' = t
     /\ rnd' = rnd + Len(selected)
     /\ SetElements(elements \o cloneAll(selected, t, rnd), ls)
     /\ UNCHANGED <<isDrawing, isPanning, currentElement, viewport, lastPanPoint, textInput,
                    selectedElements, selectionBox, resizeHandle, tool, rHistory, rIndex>>
     /\ Repaint
     /\ Step("duplicate", ev.gesture)

-----------------------------------------------------------------------------
(* Page *)

\* the page re-render scheduled by a change notification: the callbacks are
\* rebuilt around the new cursor and the save-history effect runs
PageRender ==
  /\ <<history, historyIndex>> # <<rHistory, rIndex>>
  /\ rHistory' = history
  /\ rIndex' = historyIndex
  /\ ls' = SaveHistory(ls, history, historyIndex)
  /\ UNCHANGED <<canvasVars, tool, history, historyIndex, now, rnd, steps, ev,
                 decoded, painted>>

\* the page render whose save-history effect runs into the storage quota.
\* ev keeps where the writes failed, and the live and the persisted collection
\* before the effect
PageRenderQuota(failMain, failBack) ==
  /\ <<history, historyIndex>> # <<rHistory, rIndex>>
  /\ failMain \in 1..2
  /\ failBack \in 0..2
  /\ rHistory' = history
  /\ rIndex' = historyIndex
  /\ ls' = SaveHistoryQuota(ls, history, historyIndex, failMain, failBack)
  /\ UNCHANGED <<canvasVars, tool, history, historyIndex, now, rnd, steps, decoded, painted>>
  /\ ev' = [op |-> "historyQuota", gesture |-> ev.gesture, failMain |-> failMain,
            failBack |-> failBack, elements |-> elements, stored |-> ls.canvasElements]

\* a tool change without the effect that drops the draft
SetToolKeepingDraft(newTool) ==
  /\ newTool # tool
  /\ tool' = newTool
  /\ UNCHANGED <<currentElement, isDrawing>>
  /\ UNCHANGED <<elements, isPanning, viewport, lastPanPoint, textInput, selectedElements,
                 selectionBox, resizeHandle, history, historyIndex, rHistory, rIndex, ls,
                 now, rnd, steps, ev>>
  /\ Repaint

\* setTool, and the canvas effect that drops the draft when the tool changes
SetTool(newTool) ==
  /\ newTool # tool
  /\ tool' = newTool
  /\ currentElement' = NoElement
  /\ isDrawing' = FALSE
  /\ UNCHANGED <<elements, isPanning, viewport, lastPanPoint, textInput, selectedElements,
                 selectionBox, resizeHandle, history, historyIndex, rHistory, rIndex, ls,
                 now, rnd, steps, ev>>
  /\ Repaint

\* JSON.stringify(history[i]) for the 0-based index i; undefined is stored as
\* the text "undefined", which does not parse
SnapshotJson(h, i) ==
  IF i >= 0 /\ i < Len(h) THEN Ok(StringifyAll(h[i + 1])) ELSE Bad

\* handleUndo.  flushed: whether the render caused by setHistoryIndex commits
\* (and its save-history effect runs) before the page is torn down.  ev keeps
\* the collection that was live when undo was pressed
Undo(flushed) ==
  /\ steps < MaxSteps
  /\ IF rIndex > 0
     THEN LET written == [ls EXCEPT !.canvasElements = SnapshotJson(rHistory, rIndex - 1)]
          IN ReloadFrom(IF flushed THEN SaveHistory(written, rHistory, rIndex - 1) ELSE written)
     ELSE /\ ~flushed
          /\ UNCHANGED <<canvasVars, tool, history, historyIndex, rHistory, rIndex, ls,
                         decoded, painted>>
  /\ UNCHANGED <<now, rnd>>
  /\ steps' = steps + 1
  /\ ev' = [op |-> "undo", gesture |-> "none", done |-> rIndex > 0, flushed |-> flushed,
            settled |-> <<history, historyIndex>> = <<rHistory, rIndex>>,
            before |-> elements]

Redo(flushed) ==
  /\ steps < MaxSteps
  /\ IF rIndex < Len(rHistory) - 1
     THEN LET written == [ls EXCEPT !.canvasElements = SnapshotJson(rHistory, rIndex + 1)]
          IN ReloadFrom(IF flushed THEN SaveHistory(written, rHistory, rIndex + 1) ELSE written)
     ELSE /\ ~flushed
          /\ UNCHANGED <<canvasVars, tool, history, historyIndex, rHistory, rIndex, ls,
                         decoded, painted>>
  /\ UNCHANGED <<now, rnd>>
  /\ steps' = steps + 1
  /\ ev' = [op |-> "redo", gesture |-> "none",
            afterUndo |-> ev.op = "undo" /\ ev.done /\ ev.flushed /\ ev.settled,
            settled |-> <<history, historyIndex>> = <<rHistory, rIndex>>,
            before |-> IF ev.op = "undo" THEN ev.before ELSE <<>>]

\* handleClear, confirmed
Clear(flushed) ==
  /\ steps < MaxSteps
  /\ LET written == [ls EXCEPT !.canvasElements = Ok(<<>>)]
     IN ReloadFrom(IF flushed THEN SaveHistory(written, << <<>> >>, 0) ELSE written)
  /\ UNCHANGED <<now, rnd>>
  /\ Step("clear", "none")

\* handleImageUpload, once the file is read and decoded
ImageUpload(t, w, h) ==
  LET imageElement == [id |-> <<t>>, type |-> "image", x |-> 0, y |-> 0,
                       width |-> w, height |-> h, src |-> "data"]
      saved == IF ls.canvasElements.st = "ok" THEN ls.canvasElements.v ELSE <<>>
  IN /\ steps < MaxSteps
     /\ ls.canvasElements.st # "bad"
     /\ t \in now..MaxNow
     /\ now' = t
     /\ ReloadFrom([ls EXCEPT !.canvasElements = Ok(Append(saved, imageElement))])
     /\ UNCHANGED rnd
     /\ Step("imageUpload", "none")

\* the user reloads the page
Reload ==
  /\ steps < MaxSteps
  /\ ReloadFrom(ls)
  /\ UNCHANGED <<now, rnd>>
  /\ Step("reload", "none")

-----------------------------------------------------------------------------
(* Image decoding *)

\* the browser finishes decoding the HTMLImageElement the load effect created
\* for an image element.  The load effect sets no onload handler: no state
\* changes, no render pass runs
ImageDecoded(id) ==
  /\ \E i \in 1..Len(elements) : elements[i].type = "image" /\ elements[i].id = id
  /\ id \notin decoded
  /\ decoded' = decoded \cup {id}
  /\ UNCHANGED <<canvasVars, tool, history, historyIndex, rHistory, rIndex, ls, now, rnd,
                 steps, ev, painted>>

-----------------------------------------------------------------------------
(* Storage operations that throw outside a try block *)

\* an exception leaves an effect of the canvas: React finds no handler for it
\* in the components and unmounts the tree, so the state of canvas and page is
\* gone; storage is as the failed write left it.  ev keeps the collection that
\* was live
Unmount(cause) ==
  /\ elements' = <<>>
  /\ isDrawing' = FALSE
  /\ isPanning' = FALSE
  /\ currentElement' = NoElement
  /\ viewport' = DefaultViewport
  /\ lastPanPoint' = NoPoint
  /\ textInput' = NoTextInput
  /\ selectedElements' = {}
  /\ selectionBox' = NoBox
  /\ resizeHandle' = NoResize
  /\ tool' = "pen"
  /\ history' = << <<>> >>
  /\ historyIndex' = 0
  /\ rHistory' = << <<>> >>
  /\ rIndex' = 0
  /\ decoded' = {}
  /\ painted' = {}
  /\ UNCHANGED ls
  /\ ev' = [op |-> "unmounted", gesture |-> "none", cause |-> cause, thrown |-> TRUE,
            elements |-> elements]

Mounted == ev.op # "unmounted"

\* handleMouseUp committing a draft, when the setItem of the save-elements
\* effect throws (the effect has no try block)
MouseUpDrawQuota ==
  /\ resizeHandle = NoResize
  /\ selectionBox = NoBox
  /\ ~isPanning
  /\ isDrawing
  /\ currentElement # NoElement
  /\ Unmount("saveElements")
  /\ UNCHANGED <<now, rnd, steps>>

\* handleWheel, when the setItem of the save-viewport effect throws
WheelQuota(p, zoomIn) ==
  /\ steps < MaxSteps
  /\ Unmount("saveViewport")
  /\ UNCHANGED <<now, rnd>>
  /\ steps' = steps + 1

\* Ctrl+C, when the setItem of the clipboard throws: the exception leaves the
\* keydown listener, nothing has been written
KeyCopyQuota ==
  /\ selectedElements # {}
  /\ UNCHANGED <<canvasVars, tool, history, historyIndex, rHistory, rIndex, ls, now, rnd,
                 steps, decoded, painted>>
  /\ ev' = [op |-> "copyFailed", gesture |-> ev.gesture, thrown |-> TRUE,
            elements |-> elements]

\* handleImageUpload, when canvasElements holds text that does not parse:
\* JSON.parse throws inside img.onload, nothing is written, no reload
ImageUploadCorrupt ==
  /\ steps < MaxSteps
  /\ ls.canvasElements.st = "bad"
  /\ UNCHANGED <<canvasVars, tool, history, historyIndex, rHistory, rIndex, ls, now, rnd,
                 decoded, painted>>
  /\ steps' = steps + 1
  /\ ev' = [op |-> "uploadFailed", gesture |-> ev.gesture, thrown |-> TRUE,
            elements |-> elements]

-----------------------------------------------------------------------------
(* Stored work the sessions start from *)

RectA == [id |-> <<1>>, type |-> "rectangle", x |-> 0, y |-> 0, width |-> 40, height |-> 20]
LineB == [id |-> <<2>>, type |-> "line", startX |-> 60, startY |-> 0, endX |-> 100, endY |-> 20]
PathC == [id |-> <<3>>, type |-> "path", points |-> <<Pt(0, 50), Pt(40, 70)>>]

\* modifier state of a pointer-down
Plain == [button |-> 0, shiftKey |-> FALSE, ctrlKey |-> FALSE]
Ctrl == [button |-> 0, shiftKey |-> FALSE, ctrlKey |-> TRUE]
Shift == [button |-> 0, shiftKey |-> TRUE, ctrlKey |-> FALSE]
Middle == [button |-> 1, shiftKey |-> FALSE, ctrlKey |-> FALSE]

-----------------------------------------------------------------------------
(* SpecSelect: selecting, moving and panning over two stored elements *)

SelectPoints == {Pt(20, 10), Pt(80, 10), Pt(-10, -10), Pt(70, 40)}
SelectTools == {"select", "hand", "pen"}

InitSelect == InitFrom(StorageWith(<<RectA, LineB>>))

NextSelect ==
  \/ \E p \in SelectPoints, m \in {Shift, Middle, Plain} : MouseDownPan(p, m.button, m.shiftKey)
  \/ \E p \in SelectPoints : MouseDownResize(p, 0, FALSE)
  \/ \E p \in SelectPoints, m \in {Plain, Ctrl} : MouseDownElement(p, 0, FALSE, m.ctrlKey)
  \/ \E p \in SelectPoints, m \in {Plain, Ctrl} : MouseDownSelect(p, 0, FALSE, m.ctrlKey)
  \/ \E p \in SelectPoints, t \in now..MaxNow : MouseDownDraw(p, 0, FALSE, t)
  \/ \E p \in SelectPoints : MouseMoveResize(p)
  \/ \E p \in SelectPoints : MouseMoveSelection(p)
  \/ \E p \in SelectPoints : MouseMovePan(p)
  \/ \E p \in SelectPoints : MouseMoveBox(p)
  \/ \E p \in SelectPoints : MouseMoveDraw(p)
  \/ MouseUpResize
  \/ MouseUpBox
  \/ MouseUpPan
  \/ MouseUpDraw
  \/ KeyDelete
  \/ KeyEscape
  \/ \E newTool \in SelectTools : SetTool(newTool)
  \/ PageRender

SpecSelect == InitSelect /\ [][NextSelect]_vars

-----------------------------------------------------------------------------
(* SpecMarquee: the select tool used with the plain left button only, away
   from the resize handles: click selection, dragging the selection, marquee *)

NextMarquee ==
  \/ \E p \in SelectPoints, m \in {Plain, Ctrl} : MouseDownElement(p, 0, FALSE, m.ctrlKey)
  \/ \E p \in SelectPoints, m \in {Plain, Ctrl} : MouseDownSelect(p, 0, FALSE, m.ctrlKey)
  \/ \E p \in SelectPoints : MouseMoveSelection(p)
  \/ \E p \in SelectPoints : MouseMoveBox(p)
  \/ MouseUpBox
  \/ MouseUpPan
  \/ KeyDelete
  \/ KeyEscape
  \/ SetTool("select")
  \/ PageRender

SpecMarquee == InitSelect /\ [][NextMarquee]_vars

-----------------------------------------------------------------------------
(* SpecHistory: edits, undo, redo and reload over an empty canvas or a canvas
   with one stored element *)

HistoryPoints == {Pt(20, 10), Pt(70, 40)}
HistoryTools == {"select", "eraser", "pen"}

InitHistory == \E store \in {EmptyStorage, StorageWith(<<RectA>>)} : InitFrom(store)

NextHistory ==
  \/ \E p \in HistoryPoints : MouseDownElement(p, 0, FALSE, FALSE)
  \/ \E p \in HistoryPoints : MouseDownEraser(p, 0, FALSE)
  \/ \E p \in HistoryPoints, t \in now..MaxNow : MouseDownDraw(p, 0, FALSE, t)
  \/ \E p \in HistoryPoints : MouseMoveSelection(p)
  \/ \E p \in HistoryPoints : MouseMoveDraw(p)
  \/ MouseUpPan
  \/ MouseUpDraw
  \/ KeyDelete
  \/ \E t \in now..MaxNow : KeyDuplicate(t)
  \/ \E newTool \in HistoryTools : SetTool(newTool)
  \/ PageRender
  \/ \E flushed \in BOOLEAN : Undo(flushed)
  \/ \E flushed \in BOOLEAN : Redo(flushed)
  \/ Reload

SpecHistory == InitHistory /\ [][NextHistory]_vars

\* the events that change the element collection
MutationOps ==
  {"upDraw", "textSubmit", "moveSelection", "moveResize", "erase", "delete", "duplicate",
   "paste"}

\* C1: undo (with its reload and rehydration, every effect having run)
\* followed by redo leaves the collection that was live when undo was pressed
C1_UndoRedoRestores ==
  (ev.op = "redo" /\ ev.afterUndo /\ ev.settled) => elements = ev.before

\* C3: after every mutation of the collection the persisted canvasElements
\* value is the live collection, the empty collection included
C3_PersistedEqualsLive ==
  ev.op \in MutationOps => ls.canvasElements = Ok(elements)

\* C4: the cursor always points into the history, and a change notification
\* received with the cursor at c leaves history[0..c] followed by the new
\* snapshot and the cursor at c+1, however many notifications arrive between
\* two page renders
C4_LinearHistory ==
  [][/\ historyIndex' >= 0 /\ historyIndex' <= Len(history') - 1
     /\ ((ev'.op \in MutationOps /\ <<history', historyIndex'>> # <<history, historyIndex>>)
          => /\ history' = Append(SubSeq(history, 1, historyIndex + 1), elements')
             /\ historyIndex' = historyIndex + 1)]_vars

\* C5: after every committed mutation, once the notifications are processed,
\* the snapshot at the history cursor is the live collection
C5_SnapshotAtCursorIsLive ==
  (ev.op \in MutationOps /\ <<history, historyIndex>> = <<rHistory, rIndex>>)
    => /\ historyIndex + 1 \in 1..Len(history)
       /\ history[historyIndex + 1] = elements

-----------------------------------------------------------------------------
(* SpecClone: creating elements: pen strokes, duplicate, copy and paste over
   a stored rectangle, line and path *)

ClonePoints == {Pt(20, 10), Pt(80, 10), Pt(20, 60), Pt(110, 30), Pt(-10, -10)}

InitClone == InitFrom(StorageWith(<<RectA, LineB, PathC>>))

NextClone ==
  \/ \E p \in ClonePoints, m \in {Plain, Ctrl} : MouseDownElement(p, 0, FALSE, m.ctrlKey)
  \/ \E p \in ClonePoints, t \in now..MaxNow : MouseDownDraw(p, 0, FALSE, t)
  \/ \E p \in ClonePoints : MouseMoveSelection(p)
  \/ MouseUpPan
  \/ MouseUpDraw
  \/ KeyCopy
  \/ \E t \in now..MaxNow : KeyPaste(t)
  \/ \E t \in now..MaxNow : KeyDuplicate(t)
  \/ SetTool("select")
  \/ PageRender

SpecClone == InitClone /\ [][NextClone]_vars

-----------------------------------------------------------------------------
(* SpecCreate: creating elements on an empty canvas: drafts of the drawing
   tools, text, image upload, duplicate; clearing the canvas *)

CreatePoints == {Pt(20, 10), Pt(70, 40)}
CreateTools == {"pen", "rectangle", "circle", "line", "text"}
Texts == {"hi", ""}
ImageSizes == {Pt(40, 20)}

InitCreate == InitFrom(EmptyStorage)

NextCreate ==
  \/ \E p \in CreatePoints : MouseDownElement(p, 0, FALSE, FALSE)
  \/ \E p \in CreatePoints : MouseDownText(p, 0, FALSE)
  \/ \E p \in CreatePoints, t \in now..MaxNow : MouseDownDraw(p, 0, FALSE, t)
  \/ \E p \in CreatePoints : MouseMovePan(p)
  \/ \E p \in CreatePoints : MouseMoveDraw(p)
  \/ MouseUpPan
  \/ MouseUpDraw
  \/ \E text \in Texts, t \in now..MaxNow : TextSubmit(text, t)
  \/ TextCancel
  \/ KeyEscape
  \/ \E t \in now..MaxNow : KeyDuplicate(t)
  \/ \E newTool \in CreateTools : SetTool(newTool)
  \/ PageRender
  \/ \E t \in now..MaxNow, size \in ImageSizes : ImageUpload(t, size.x, size.y)
  \/ \E flushed \in BOOLEAN : Clear(flushed)

SpecCreate == InitCreate /\ [][NextCreate]_vars

\* a duplicate or a paste is taking place; the elements it clones
CloneStep == ev'.op \in {"duplicate", "paste"} /\ steps' = steps + 1
Originals ==
  IF ev'.op = "duplicate" THEN SelectedOf(elements, selectedElements) ELSE ls.clipboard.v

\* every positional field of o's variant is 20 more on c
OffsetByCloneOffset(o, c) ==
  CASE o.type \in {"line", "arrow"} ->
         /\ c.startX = Add(o.startX, CloneOffset) /\ c.startY = Add(o.startY, CloneOffset)
         /\ c.endX = Add(o.endX, CloneOffset) /\ c.endY = Add(o.endY, CloneOffset)
    [] o.type = "path" ->
         /\ Len(c.points) = Len(o.points)
         /\ \A k \in 1..Len(o.points) :
              c.points[k] = Pt(Add(o.points[k].x, CloneOffset), Add(o.points[k].y, CloneOffset))
    [] OTHER -> c.x = Add(o.x, CloneOffset) /\ c.y = Add(o.y, CloneOffset)

\* C7: duplicate and paste append exactly one clone per cloned element, each
\* with an id that no element of the store had and with every positional
\* field of its variant offset by (20,20); the elements that existed are
\* unchanged
C7_ClonesAreOffsetCopies ==
  [][CloneStep =>
       LET old == Len(elements)
           n == Len(Originals)
       IN /\ Len(elements') = old + n
          /\ SubSeq(elements', 1, old) = elements
          /\ \A i \in 1..n :
               /\ \A j \in 1..old : elements'[old + i].id # elements[j].id
               /\ OffsetByCloneOffset(Originals[i], elements'[old + i])]_vars

\* C8: a clone has exactly the fields of its original, and none of its
\* numeric fields is undefined or NaN, also when the original is a clone
C8_CloneKeepsFieldSet ==
  [][CloneStep =>
       \A i \in 1..Len(Originals) :
         LET c == elements'[Len(elements) + i]
         IN /\ DOMAIN c = DOMAIN Originals[i]
            /\ \A k \in DOMAIN c \cap NumKeys : c[k] \notin {Undefined, NaN}]_vars

UniqueIds(els) == \A i, j \in 1..Len(els) : i # j => els[i].id # els[j].id

\* C9: no two elements of the store share an id, and a move or a resize
\* keeps every element's id
C9_IdsUniqueAndStable ==
  [][/\ UniqueIds(elements')
     /\ (ev'.op \in {"moveSelection", "moveResize"} /\ steps' = steps + 1)
          => /\ Len(elements') = Len(elements)
             /\ \A i \in 1..Len(elements) : elements'[i].id = elements[i].id]_vars

-----------------------------------------------------------------------------
(* SpecResize: one stored element of each variant, selected by a click and
   resized by its handles *)

ResizeSamples ==
  {[id |-> <<1>>, type |-> "rectangle", x |-> 0, y |-> 0, width |-> 40, height |-> 20],
   [id |-> <<1>>, type |-> "ellipse", x |-> 0, y |-> 0, width |-> 40, height |-> 20],
   [id |-> <<1>>, type |-> "diamond", x |-> 0, y |-> 0, width |-> 40, height |-> 20],
   [id |-> <<1>>, type |-> "circle", x |-> 20, y |-> 10, radius |-> 10],
   [id |-> <<1>>, type |-> "line", startX |-> 0, startY |-> 0, endX |-> 40, endY |-> 20],
   [id |-> <<1>>, type |-> "arrow", startX |-> 0, startY |-> 20, endX |-> 40, endY |-> 0],
   [id |-> <<1>>, type |-> "text", x |-> 0, y |-> 24, text |-> "text",
    fontSize |-> 20 * FontUnit],
   [id |-> <<1>>, type |-> "path", points |-> <<Pt(0, 0), Pt(40, 20)>>],
   [id |-> <<1>>, type |-> "image", x |-> 0, y |-> 0, width |-> 40, height |-> 20,
    src |-> "data"]}

\* the middle of the samples and a point on each of their eight handles
ResizePoints ==
  {Pt(20, 10), Pt(-5, -5), Pt(20, -5), Pt(45, -5), Pt(45, 10), Pt(45, 25), Pt(20, 25),
   Pt(-5, 25), Pt(-5, 10)}

InitResize == \E el \in ResizeSamples : InitFrom(StorageWith(<<el>>))

NextResize ==
  \/ \E p \in ResizePoints : MouseDownElement(p, 0, FALSE, FALSE)
  \/ \E p \in ResizePoints : MouseDownResize(p, 0, FALSE)
  \/ \E p \in ResizePoints : MouseMoveResize(p)
  \/ MouseUpResize
  \/ MouseUpPan
  \/ PageRender

SpecResize == InitResize /\ [][NextResize]_vars

\* C2: after a pointer-move of a resize the bounds of the resized element are
\* at least 10 wide and 10 high, for every variant and every handle
C2_ResizeKeepsMinSize ==
  (ev.op = "moveResize" /\ resizeHandle # NoResize)
    => \A i \in 1..Len(elements) :
         elements[i].id = resizeHandle.elementId
           => LET b == getElementBounds(elements[i])
              IN b # NoBounds /\ Ge(b.width, MinSize) /\ Ge(b.height, MinSize)

\* the events that are pointer-moves
MoveOps == {"moveResize", "moveSelection", "movePan", "moveBox", "moveDraw"}

\* el's bounds lie fully inside the normalized box
FullyInside(el, box) ==
  LET b == getElementBounds(el)
      minX == MathMin(box.start.x, box.end.x)
      maxX == MathMax(box.start.x, box.end.x)
      minY == MathMin(box.start.y, box.end.y)
      maxY == MathMax(box.start.y, box.end.y)
  IN /\ b # NoBounds
     /\ Ge(b.x, minX) /\ Le(Add(b.x, b.width), maxX)
     /\ Ge(b.y, minY) /\ Le(Add(b.y, b.height), maxY)

\* the box and el's bounds overlap
Overlaps(el, box) ==
  LET b == getElementBounds(el)
      minX == MathMin(box.start.x, box.end.x)
      maxX == MathMax(box.start.x, box.end.x)
      minY == MathMin(box.start.y, box.end.y)
      maxY == MathMax(box.start.y, box.end.y)
  IN /\ b # NoBounds
     /\ Le(b.x, maxX) /\ Ge(Add(b.x, b.width), minX)
     /\ Le(b.y, maxY) /\ Ge(Add(b.y, b.height), minY)

\* C6: after the pointer-up that ends a marquee the selection is exactly the
\* ids of the elements whose bounds lie fully inside the normalized box,
\* whatever was selected before and whether or not Ctrl was held at
\* pointer-down
C6_MarqueeSelectsContained ==
  ev.op = "upBox"
    => selectedElements =
         {elements[i].id : i \in {j \in 1..Len(elements) : FullyInside(elements[j], ev.box)}}

\* C6 witness: a Ctrl marquee released around RectA while it cuts through
\* LineB, which was selected when the marquee ended: RectA is selected, LineB
\* no longer is
C6_Witness ==
  /\ ev.op = "upBox" /\ ev.gesture = "marqueeCtrl"
  /\ elements = <<RectA, LineB>>
  /\ ev.before = {LineB.id}
  /\ FullyInside(RectA, ev.box)
  /\ Overlaps(LineB, ev.box) /\ ~FullyInside(LineB, ev.box)
  /\ selectedElements = {RectA.id}

\* C10: during a gesture started by a pointer-down with a pan trigger (and no
\* other gesture in progress) every pointer-move adds the raw screen delta to
\* the viewport offset and changes neither the scale, nor the elements, nor
\* the selection
C10_PanGestureOnlyMovesViewport ==
  [][(ev.gesture = "pan" /\ ev'.gesture = "pan" /\ ev'.op \in MoveOps
      /\ steps' = steps + 1
      /\ resizeHandle = NoResize /\ selectionBox = NoBox /\ ~isDrawing)
     => /\ viewport'.x = viewport.x + (lastPanPoint'.x - lastPanPoint.x)
        /\ viewport'.y = viewport.y + (lastPanPoint'.y - lastPanPoint.y)
        /\ viewport'.scale = viewport.scale
        /\ elements' = elements
        /\ selectedElements' = selectedElements]_vars

\* the collection after every selected element is translated by the world
\* delta of a pointer-move from lastPanPoint to the pointer position next
TranslatedSelection(next) ==
  [i \in 1..Len(elements) |->
     IF elements[i].id \in selectedElements
     THEN moveElement(elements[i],
                      Quot((next.x - lastPanPoint.x) * ScaleUnit, viewport.scale),
                      Quot((next.y - lastPanPoint.y) * ScaleUnit, viewport.scale))
     ELSE elements[i]]

\* C11: during a gesture started by a pointer-down on an element (any tool but
\* the eraser, no pan trigger, no handle hit) every pointer-move translates
\* every selected element by the world-space delta and leaves the viewport
\* unchanged
C11_ElementGestureMovesSelection ==
  [][(ev.gesture = "element" /\ ev'.gesture = "element" /\ ev'.op \in MoveOps
      /\ steps' = steps + 1 /\ PanActive)
     => /\ viewport' = viewport
        /\ elements' = TranslatedSelection(lastPanPoint')]_vars

-----------------------------------------------------------------------------
(* SpecMove: three stored elements side by side, every variant occurring in
   one of the stores, seen through a viewport zoomed in to the largest scale;
   elements are clicked, Ctrl+clicked and dragged *)

MoveStores ==
  {<<[id |-> <<1>>, type |-> "rectangle", x |-> 0, y |-> 0, width |-> 40, height |-> 20],
     [id |-> <<2>>, type |-> "line", startX |-> 100, startY |-> 0, endX |-> 140, endY |-> 20],
     [id |-> <<3>>, type |-> "path", points |-> <<Pt(200, 0), Pt(220, 20), Pt(240, 0)>>]>>,
   <<[id |-> <<1>>, type |-> "ellipse", x |-> 0, y |-> 0, width |-> 40, height |-> 20],
     [id |-> <<2>>, type |-> "arrow", startX |-> 100, startY |-> 20, endX |-> 140, endY |-> 0],
     [id |-> <<3>>, type |-> "text", x |-> 200, y |-> 24, text |-> "text",
      fontSize |-> 20 * FontUnit]>>,
   <<[id |-> <<1>>, type |-> "diamond", x |-> 0, y |-> 0, width |-> 40, height |-> 20],
     [id |-> <<2>>, type |-> "circle", x |-> 120, y |-> 10, radius |-> 10],
     [id |-> <<3>>, type |-> "image", x |-> 200, y |-> 0, width |-> 40, height |-> 20,
      src |-> "data"]>>}

MoveViewport == [x |-> 10, y |-> 10, scale |-> MaxScale]

\* screen positions of the middle of each stored element and of an empty place
MovePoints == {Pt(210, 110), Pt(1210, 110), Pt(2210, 110), Pt(3010, 3010)}

InitMove ==
  \E els \in MoveStores :
    InitFrom([StorageWith(els) EXCEPT !.canvasViewport = Ok(MoveViewport)])

NextMove ==
  \/ \E p \in MovePoints, m \in {Plain, Ctrl} : MouseDownElement(p, 0, FALSE, m.ctrlKey)
  \/ \E p \in MovePoints : MouseMoveSelection(p)
  \/ \E p \in MovePoints : MouseMovePan(p)
  \/ MouseUpPan
  \/ SetTool("select")
  \/ PageRender

SpecMove == InitMove /\ [][NextMove]_vars

\* c is o with every geometric field of o's variant translated by (dx,dy) and
\* every other field as it was
TranslatedBy(o, c, dx, dy) ==
  /\ DOMAIN c = DOMAIN o
  /\ CASE o.type \in {"line", "arrow"} ->
            /\ c.startX = o.startX + dx /\ c.startY = o.startY + dy
            /\ c.endX = o.endX + dx /\ c.endY = o.endY + dy
            /\ \A k \in DOMAIN o \ {"startX", "startY", "endX", "endY"} : c[k] = o[k]
       [] o.type = "path" ->
            /\ Len(c.points) = Len(o.points)
            /\ \A k \in 1..Len(o.points) :
                 c.points[k] = Pt(o.points[k].x + dx, o.points[k].y + dy)
            /\ \A k \in DOMAIN o \ {"points"} : c[k] = o[k]
       [] OTHER ->
            /\ c.x = o.x + dx /\ c.y = o.y + dy
            /\ \A k \in DOMAIN o \ {"x", "y"} : c[k] = o[k]

\* b2 is b1 translated by (dx,dy), same width and height
BoundsTranslatedBy(b1, b2, dx, dy) ==
  /\ b1 # NoBounds /\ b2 # NoBounds
  /\ b2.x = b1.x + dx /\ b2.y = b1.y + dy
  /\ b2.width = b1.width /\ b2.height = b1.height

\* C12: a move by the world delta (dx,dy) translates every geometric field of
\* every selected element, so that its bounds are translated by exactly
\* (dx,dy) with the same width and height; every unselected element is
\* unchanged
C12_MoveTranslatesSelection ==
  [][(ev'.op = "moveSelection" /\ steps' = steps + 1)
     => LET dx == Quot((lastPanPoint'.x - lastPanPoint.x) * ScaleUnit, viewport.scale)
            dy == Quot((lastPanPoint'.y - lastPanPoint.y) * ScaleUnit, viewport.scale)
        IN /\ Len(elements') = Len(elements)
           /\ \A i \in 1..Len(elements) :
                IF elements[i].id \in selectedElements
                THEN /\ TranslatedBy(elements[i], elements'[i], dx, dy)
                     /\ BoundsTranslatedBy(getElementBounds(elements[i]),
                                           getElementBounds(elements'[i]), dx, dy)
                ELSE elements'[i] = elements[i]]_vars

\* C12 witness: the line and the path, selected together, have been dragged
\* by the world delta (100,0) while the rectangle stayed
C12_Witness ==
  /\ ev.op = "moveSelection"
  /\ selectedElements = {<<2>>, <<3>>}
  /\ Len(elements) = 3
  /\ elements[1] = [id |-> <<1>>, type |-> "rectangle", x |-> 0, y |-> 0,
                    width |-> 40, height |-> 20]
  /\ elements[2] = [id |-> <<2>>, type |-> "line", startX |-> 200, startY |-> 0,
                    endX |-> 240, endY |-> 20]
  /\ elements[3] = [id |-> <<3>>, type |-> "path",
                    points |-> <<Pt(300, 0), Pt(320, 20), Pt(340, 0)>>]

-----------------------------------------------------------------------------
(* Resize sessions: an element is selected by a click and resized by its
   handles, the pointer visiting the given places *)

NextHandles(points) ==
  \/ \E p \in points : MouseDownElement(p, 0, FALSE, FALSE)
  \/ \E p \in points : MouseDownResize(p, 0, FALSE)
  \/ \E p \in points : MouseMoveResize(p)
  \/ MouseUpResize
  \/ MouseUpPan
  \/ PageRender

(* SpecImage: one stored image of 200 by 100 *)

\* the middle and the eight handles of the image, and a place outside of it
ImagePoints ==
  {Pt(100, 50), Pt(0, 0), Pt(100, 0), Pt(200, 0), Pt(200, 50), Pt(200, 100), Pt(100, 100),
   Pt(0, 100), Pt(0, 50), Pt(210, 200)}

InitImage ==
  InitFrom(StorageWith(<<[id |-> <<1>>, type |-> "image", x |-> 0, y |-> 0,
                          width |-> 200, height |-> 100, src |-> "data"]>>))

SpecImage == InitImage /\ [][NextHandles(ImagePoints)]_vars

\* the element being resized
Resized == elements[FindIndex(elements, resizeHandle.elementId)]

\* width and height that the drag delta asks for
RawWidth ==
  IF resizeHandle.handle \in {"nw", "w", "sw"} THEN resizeHandle.startBounds.width - ev.dx
  ELSE IF resizeHandle.handle \in {"ne", "e", "se"} THEN resizeHandle.startBounds.width + ev.dx
  ELSE resizeHandle.startBounds.width
RawHeight ==
  IF resizeHandle.handle \in {"nw", "n", "ne"} THEN resizeHandle.startBounds.height - ev.dy
  ELSE IF resizeHandle.handle \in {"sw", "s", "se"} THEN resizeHandle.startBounds.height + ev.dy
  ELSE resizeHandle.startBounds.height

\* the same, not below the minimum size
AskedWidth == IF RawWidth < 10 THEN 10 ELSE RawWidth
AskedHeight == IF RawHeight < 10 THEN 10 ELSE RawHeight

Dist(a, b) == IF a >= b THEN a - b ELSE b - a

\* C13: after a corner-handle drag of an image the width/height ratio is the
\* ratio of the start bounds, the dimension that the drag changed more is the
\* one asked for and the other is derived from it; after an edge-handle drag
\* only the dimension perpendicular to the edge has changed, to the value
\* asked for, so that the ratio is not kept
C13_ImageAspectRatio ==
  (ev.op = "moveResize" /\ resizeHandle # NoResize /\ Resized.type = "image")
    => LET sb == resizeHandle.startBounds
           el == Resized
       IN IF resizeHandle.handle \in {"nw", "ne", "se", "sw"}
          THEN /\ el.width * sb.height = el.height * sb.width
               /\ Dist(AskedWidth, sb.width) > Dist(AskedHeight, sb.height)
                    => el.width = AskedWidth
               /\ Dist(AskedHeight, sb.height) > Dist(AskedWidth, sb.width)
                    => el.height = AskedHeight
          ELSE IF resizeHandle.handle \in {"n", "s"}
          THEN /\ el.width = sb.width /\ el.x = sb.x
               /\ el.height = AskedHeight
               /\ el.height # sb.height => el.width * sb.height # el.height * sb.width
          ELSE /\ el.height = sb.height /\ el.y = sb.y
               /\ el.width = AskedWidth
               /\ el.width # sb.width => el.width * sb.height # el.height * sb.width

\* C13 witness: the 200 by 100 image dragged by its se handle by (+10,+100)
\* is 400 by 200
C13_Witness ==
  /\ ev.op = "moveResize" /\ resizeHandle # NoResize
  /\ resizeHandle.handle = "se"
  /\ resizeHandle.startBounds = [x |-> 0, y |-> 0, width |-> 200, height |-> 100]
  /\ ev.dx = 10 /\ ev.dy = 100
  /\ Resized.type = "image"
  /\ Resized.width = 400 /\ Resized.height = 200

-----------------------------------------------------------------------------
(* SpecShape: one stored rectangle, ellipse or diamond of 100 by 50 *)

\* the middle and the eight handles of the shape, and a place outside of it
ShapePoints ==
  {Pt(50, 25), Pt(0, 0), Pt(50, 0), Pt(100, 0), Pt(100, 25), Pt(100, 50), Pt(50, 50),
   Pt(0, 50), Pt(0, 25), Pt(120, 70)}

InitShape ==
  \E type \in {"rectangle", "ellipse", "diamond"} :
    InitFrom(StorageWith(<<[id |-> <<1>>, type |-> type, x |-> 0, y |-> 0,
                            width |-> 100, height |-> 50]>>))

SpecShape == InitShape /\ [][NextHandles(ShapePoints)]_vars

C15_OppositeSideStays ==
  (ev.op = "moveResize" /\ resizeHandle # NoResize)
    => LET sb == resizeHandle.startBounds
           h == resizeHandle.handle
           b == getElementBounds(Resized)
       IN /\ b # NoBounds
          /\ h \in {"nw", "w", "sw"} => Add(b.x, b.width) = Add(sb.x, sb.width)
          /\ h \in {"ne", "e", "se"} => b.x = sb.x
          /\ h \in {"nw", "n", "ne"} => Add(b.y, b.height) = Add(sb.y, sb.height)
          /\ h \in {"sw", "s", "se"} => b.y = sb.y

-----------------------------------------------------------------------------
(* SpecZoom: zooming with the wheel, panning and dragging a stored rectangle,
   from the default viewport or from a stored viewport at the smallest or
   the largest scale *)

ZoomViewports ==
  {DefaultViewport, [x |-> 0, y |-> 0, scale |-> MinScale],
   [x |-> -400, y |-> -300, scale |-> MaxScale]}

ZoomPoints == {Pt(400, 300), Pt(20, 10)}

InitZoom ==
  \E v \in ZoomViewports :
    InitFrom([StorageWith(<<RectA>>) EXCEPT !.canvasViewport = Ok(v)])

NextZoom ==
  \/ \E p \in ZoomPoints, zoomIn \in BOOLEAN : Wheel(p, zoomIn)
  \/ \E p \in ZoomPoints, zoomIn1, zoomIn2 \in BOOLEAN : WheelTwice(p, zoomIn1, zoomIn2)
  \/ \E p \in ZoomPoints : MouseDownPan(p, 1, FALSE)
  \/ \E p \in ZoomPoints : MouseDownElement(p, 0, FALSE, FALSE)
  \/ \E p \in ZoomPoints : MouseMoveSelection(p)
  \/ \E p \in ZoomPoints : MouseMovePan(p)
  \/ MouseUpPan
  \/ SetTool("select")
  \/ PageRender

SpecZoom == InitZoom /\ [][NextZoom]_vars

\* C16: after a wheel event the world point under the cursor is the one that
\* was under it before, on both axes: (cursor - x') / scale' is
\* (cursor - x) / scale up to the rounding of x' to the unit of the offsets;
\* also when the new scale is clamped and when the event is the second one
\* handled before a render
C16_ZoomKeepsPointUnderCursor ==
  ev.op = "wheel"
    => /\ Dist((ev.at.x - viewport.x) * ev.prev.scale, (ev.at.x - ev.prev.x) * viewport.scale)
            < ev.prev.scale
       /\ Dist((ev.at.y - viewport.y) * ev.prev.scale, (ev.at.y - ev.prev.y) * viewport.scale)
            < ev.prev.scale

\* C16 witness: from the default viewport, with the cursor at (400,300), a
\* zoom-in and a zoom-out were handled before a render; the second one
\* received the viewport (-40,-30) at scale 1.1 and left (40,30) at scale 0.9
C16_Witness ==
  /\ ev.op = "wheel" /\ ev.events = 2
  /\ ev.at = Pt(400, 300)
  /\ ev.prev = [x |-> -40, y |-> -30, scale |-> 11000]
  /\ viewport = [x |-> 40, y |-> 30, scale |-> 9000]

\* C17: the scale is always within [0.1, 10], and a wheel event leaves the
\* scale at the scale before it times 1.1 (zoom in) or 0.9 (zoom out),
\* clamped to that range
C17_ScaleClampedAndStepped ==
  /\ viewport.scale >= MinScale /\ viewport.scale <= MaxScale
  /\ ev.op = "wheel"
       => LET target == Quot(ev.prev.scale * (IF ev.zoomIn THEN 11 ELSE 9), 10)
          IN viewport.scale = (IF target < MinScale THEN MinScale
                               ELSE IF target > MaxScale THEN MaxScale
                               ELSE target)

-----------------------------------------------------------------------------
(* SpecDraw: drawing with the pen and the shape tools next to a stored line,
   with Escape and tool changes *)

DrawTools == {"pen", "rectangle", "ellipse", "diamond", "line", "arrow"}

\* two empty places
DrawPoints == {Pt(0, 0), Pt(100, 50)}

InitDraw == InitFrom(StorageWith(<<LineB>>))

\* every pointer-down comes one tick of the clock after the one before
NextDraw ==
  \/ \E p \in DrawPoints : MouseDownDraw(p, 0, FALSE, Min2(now + 1, MaxNow))
  \/ \E p \in DrawPoints : MouseMoveDraw(p)
  \/ MouseUpDraw
  \/ MouseUpIdle
  \/ KeyEscape
  \/ \E newTool \in DrawTools : SetTool(newTool)
  \/ PageRender

SpecDraw == InitDraw /\ [][NextDraw]_vars

\* el has the geometry of a draft drawn along the trail
DrawnAlong(el, trail) ==
  LET a == trail[1]
      b == trail[Len(trail)]
  IN CASE el.type \in {"rectangle", "ellipse", "diamond"} ->
            /\ el.x = a.x /\ el.y = a.y
            /\ el.width = b.x - a.x /\ el.height = b.y - a.y
       [] el.type \in {"line", "arrow"} ->
            /\ el.startX = a.x /\ el.startY = a.y
            /\ el.endX = b.x /\ el.endY = b.y
       [] el.type = "path" -> el.points = trail
       [] OTHER -> FALSE

\* the variant that a drawing tool creates
VariantOf(toolName) == IF toolName = "pen" THEN "path" ELSE toolName

EscapeTools == {"pen", "image"}

\* an empty place and a place on the stored line
EscapePoints == {Pt(0, 0), Pt(80, 10)}

NextEscape ==
  \/ \E p \in EscapePoints : MouseDownElement(p, 0, FALSE, FALSE)
  \/ \E p \in EscapePoints : MouseDownDraw(p, 0, FALSE, Min2(now + 1, MaxNow))
  \/ \E p \in EscapePoints : MouseMoveDraw(p)
  \/ MouseUpPan
  \/ MouseUpDraw
  \/ MouseUpIdle
  \/ KeyEscape
  \/ \E newTool \in EscapeTools : SetTool(newTool)
  \/ PageRender

SpecEscape == InitDraw /\ [][NextEscape]_vars

\* what Escape and the pointer-up after it leave behind when Escape found a
\* draft
EscapeDiscardsDraft ==
  /\ (ev.op = "escape" /\ ev.draft) =>
       /\ currentElement = NoElement
       /\ ~isDrawing
       /\ elements = ev.before
       /\ selectedElements = ev.selected
       /\ ~ev.panning => Idle
  /\ (ev.op \in {"upDraw", "upIdle"} /\ ev.afterEscape) => elements = ev.before

LongHistory == [k \in 1..HistoryLimit |-> <<[LineB EXCEPT !.endX = 100 + k]>>]

StorageLong ==
  [canvasElements |-> Ok(LongHistory[HistoryLimit]), canvasViewport |-> Ok(DefaultViewport),
   canvasHistory |-> Ok(LongHistory), canvasHistoryIndex |-> Ok(HistoryLimit - 1),
   clipboard |-> Missing]

QuotaPoints == {Pt(0, 50), Pt(80, 10)}

InitQuota == InitFrom(StorageLong) \/ InitFrom(StorageWith(<<LineB>>))

NextQuota ==
  \/ \E p \in QuotaPoints : MouseDownDraw(p, 0, FALSE, Min2(now + 1, MaxNow))
  \/ MouseUpDraw
  \/ \E flushed \in BOOLEAN : Undo(flushed)
  \/ \E flushed \in BOOLEAN : Redo(flushed)
  \/ Reload
  \/ PageRender
  \/ \E failMain \in 1..2, failBack \in 0..2 : PageRenderQuota(failMain, failBack)

SpecQuota == InitQuota /\ [][NextQuota]_vars

\* every update of history and cursor has been rendered, so the save-history
\* effect has run for the values the page now has
Settled == <<history, historyIndex>> = <<rHistory, rIndex>>

\* the most recent 50 snapshots of h, in order, as they are written
LastFifty(h) ==
  [k \in 1..Min2(50, Len(h)) |-> StringifyAll(h[Len(h) - Min2(50, Len(h)) + k])]

\* C21: whenever the save-history effect runs for a change of history or
\* cursor (and its writes go through), canvasHistory then holds at most 50
\* snapshots, and they are the most recent 50 snapshots of the live history, in
\* order.
C21_PersistedHistoryIsLastFifty ==
  [][(<<rHistory', rIndex'>> # <<rHistory, rIndex>> /\ ev'.op # "historyQuota") =>
       /\ ls'.canvasHistory.st = "ok"
       /\ Len(ls'.canvasHistory.v) <= 50
       /\ ls'.canvasHistory.v = LastFifty(rHistory')]_vars

\* the live history has fifty-two snapshots; the persisted one holds the last
\* fifty of them
C21_Witness ==
  /\ Settled /\ ev.op # "historyQuota"
  /\ Len(history) = 52
  /\ Len(ls.canvasHistory.v) = 50
  /\ ls.canvasHistory.v[1] = StringifyAll(LongHistory[3])
  /\ ls.canvasHistory.v[50] = StringifyAll(elements)

\* C22: when the history write fails with QuotaExceededError, canvasHistory
\* becomes the single snapshot history[cursor] and canvasHistoryIndex 0; when
\* that write fails too, both keys are removed; in every case the live
\* collection and canvasElements are as they were.
C22_QuotaFallback ==
  ev.op = "historyQuota" =>
    /\ elements = ev.elements
    /\ ls.canvasElements = ev.stored
    /\ ev.failBack = 0 =>
         /\ ls.canvasHistoryIndex = Ok(0)
         /\ ls.canvasHistory.st = "ok"
         /\ Len(ls.canvasHistory.v) = 1
         /\ rIndex < Len(rHistory) =>
              ls.canvasHistory.v[1] = StringifyAll(rHistory[rIndex + 1])
    /\ ev.failBack # 0 =>
         /\ ls.canvasHistory = Missing
         /\ ls.canvasHistoryIndex = Missing

\* the history of fifty-one snapshots could not be written and the fallback
\* went through: exactly the snapshot at the cursor is persisted
C22_Witness ==
  /\ ev.op = "historyQuota" /\ ev.failBack = 0
  /\ Len(history) = 51 /\ historyIndex = 50
  /\ ls.canvasHistory = Ok(<<StringifyAll(history[51])>>)
  /\ ls.canvasHistoryIndex = Ok(0)
  /\ ls.canvasElements = Ok(LongHistory[HistoryLimit])

(***************************************************************************)
(* Load sessions: storage in which each of the four keys is missing,       *)
(* holds text that does not parse, or holds a value; then pen strokes and  *)
(* reloads                                                                 *)
(***************************************************************************)
KeyStates(v) == {Missing, Bad, Ok(v)}

LoadStores ==
  {[canvasElements |-> e, canvasViewport |-> v, canvasHistory |-> h,
    canvasHistoryIndex |-> i, clipboard |-> Missing] :
     e \in KeyStates(<<LineB>>),
     v \in KeyStates([x |-> 10, y |-> 20, scale |-> 2 * ScaleUnit]),
     h \in KeyStates(<< <<>>, <<LineB>> >>),
     i \in KeyStates(1)}

InitLoad == \E store \in LoadStores : InitFrom(store)

NextLoad ==
  \/ \E p \in QuotaPoints : MouseDownDraw(p, 0, FALSE, Min2(now + 1, MaxNow))
  \/ MouseUpDraw
  \/ Reload
  \/ PageRender

SpecLoad == InitLoad /\ [][NextLoad]_vars

\* what the load step makes of one key: its value, or the default when the
\* key is missing or does not parse
Loaded(key, default) == IF key.st = "ok" THEN key.v ELSE default

\* the four states as the load step leaves them, given the storage it found
LoadedFrom(store, els, view, hist, cursor) ==
  /\ els = Loaded(store.canvasElements, <<>>)
  /\ view = Loaded(store.canvasViewport, DefaultViewport)
  /\ hist = Loaded(store.canvasHistory, << <<>> >>)
  /\ cursor = Loaded(store.canvasHistoryIndex, 0)

\* C23: at startup each of the keys canvasElements, canvasViewport,
\* canvasHistory and canvasHistoryIndex is loaded on its own: a key whose text
\* does not parse leaves its state at the empty or default value, the other
\* keys are still loaded, and the load step completes.  The first conjunct is
\* about the mount every behaviour starts with, the second about every reload.
C23_CorruptKeysIgnoredIndependently ==
  /\ LoadedFrom(ev.found, elements, viewport, rHistory, rIndex)
  /\ [][ev'.op = "reload" /\ ev.op # "reload" =>
          LoadedFrom(ls, elements', viewport', rHistory', rIndex')]_vars

\* the elements and the history did not parse, the viewport and the cursor
\* did: the collection is empty, the history the default one, the viewport
\* and the cursor are the stored ones
C23_Witness ==
  /\ ev.op = "mount"
  /\ ev.found.canvasElements = Bad /\ ev.found.canvasHistory = Bad
  /\ ev.found.canvasViewport.st = "ok" /\ ev.found.canvasHistoryIndex.st = "ok"
  /\ elements = <<>>
  /\ rHistory = << <<>> >>
  /\ viewport = [x |-> 10, y |-> 20, scale |-> 2 * ScaleUnit]
  /\ rIndex = 1

(***************************************************************************)
(* Full-storage sessions: pen strokes, wheel steps, copies and image       *)
(* uploads whose storage operation goes through or throws                  *)
(***************************************************************************)
StoreStores == {StorageWith(<<LineB>>), [StorageWith(<<LineB>>) EXCEPT !.canvasElements = Bad]}

InitStore == \E store \in StoreStores : InitFrom(store)

NextStore ==
  \/ Mounted /\ \E p \in QuotaPoints : MouseDownDraw(p, 0, FALSE, Min2(now + 1, MaxNow))
  \/ Mounted /\ MouseUpDraw
  \/ Mounted /\ MouseUpDrawQuota
  \/ Mounted /\ \E p \in QuotaPoints : MouseDownElement(p, 0, FALSE, FALSE)
  \/ Mounted /\ MouseUpPan
  \/ Mounted /\ KeyCopy
  \/ Mounted /\ KeyCopyQuota
  \/ Mounted /\ \E zoomIn \in BOOLEAN : Wheel(Pt(80, 10), zoomIn)
  \/ Mounted /\ \E zoomIn \in BOOLEAN : WheelQuota(Pt(80, 10), zoomIn)
  \/ Mounted /\ ImageUpload(now, 200, 100)
  \/ Mounted /\ ImageUploadCorrupt
  \/ Mounted /\ PageRender
  \/ Reload

SpecStore == InitStore /\ [][NextStore]_vars

\* C24: a failing write of the element collection, of the viewport or of the
\* clipboard, and a failing parse of the persisted elements during image
\* upload, are contained: no exception leaves the handler or effect, and the
\* live element collection is the one before the failure.
C24_StorageFailuresContained ==
  ev.op \in {"unmounted", "copyFailed", "uploadFailed"} =>
    /\ ~ev.thrown
    /\ elements = ev.elements

(***************************************************************************)
(* Decode sessions: a stored image is rehydrated at mount; its decode      *)
(* completes before or after the first render pass; wheel steps, clicks,   *)
(* moves, an upload and reloads are the user's events                      *)
(***************************************************************************)
ImageD == [id |-> <<4>>, type |-> "image", x |-> 0, y |-> 0, width |-> 40, height |-> 20,
           src |-> "data"]

\* the stored image, and the image an upload at the initial clock adds
DecodeIds == {ImageD.id, <<10>>}

InitDecode == \E early \in SUBSET {ImageD.id} : InitDecoding(StorageWith(<<ImageD>>), early)

NextDecode ==
  \/ \E id \in DecodeIds : ImageDecoded(id)
  \/ \E zoomIn \in BOOLEAN : Wheel(Pt(20, 10), zoomIn)
  \/ MouseDownElement(Pt(20, 10), 0, FALSE, FALSE)
  \/ MouseMovePan(Pt(30, 10))
  \/ MouseUpPan
  \/ ImageUpload(now, 200, 100)
  \/ Reload
  \/ PageRender

\* decoding is the browser's work and completes; the user's events may or
\* may not come
SpecDecode ==
  InitDecode /\ [][NextDecode]_vars /\ WF_vars(\E id \in DecodeIds : ImageDecoded(id))

ImagePresent(id) ==
  \E i \in 1..Len(elements) : elements[i].type = "image" /\ elements[i].id = id

\* C25: an image element rehydrated at startup is skipped by the render pass
\* while its decode is running, and once the decode has completed a render
\* pass that draws it follows without any further user event.
C25_DecodedImageGetsDrawn ==
  /\ [](painted \subseteq decoded)
  /\ \A id \in DecodeIds :
       (ImagePresent(id) /\ id \in decoded) ~> (id \in painted \/ ~ImagePresent(id))

\* the middle of a Rectangle, Ellipse or Diamond as drawn, from its stored
\* origin and signed size
MiddleOf(el) == Pt(el.x + Quot(el.width, 2), el.y + Quot(el.height, 2))

\* C26: for every committed element the bounds have width >= 0 and
\* height >= 0 with (x, y) the top-left corner, also for a Rectangle, Ellipse
\* or Diamond drawn by dragging up or to the left, so that a point inside the
\* drawn shape is contained.
C26_BoundsAreNormalized ==
  \A i \in 1..Len(elements) :
    LET el == elements[i]
        bounds == getElementBounds(el)
    IN bounds # NoBounds =>
         /\ Ge(bounds.width, 0)
         /\ Ge(bounds.height, 0)
         /\ el.type \in {"rectangle", "ellipse", "diamond"} =>
              isPointInElement(MiddleOf(el), el)

-----------------------------------------------------------------------------
(* SpecHandle: pointer-down with every tool over two rectangles that overlap *)

RectOver == [id |-> <<4>>, type |-> "rectangle", x |-> 30, y |-> 15, width |-> 40, height |-> 30]

\* inside RectA only, which is where the north-west handle of RectOver lies;
\* inside both rectangles; on the west handle of RectA over empty canvas
HandlePoints == {Pt(20, 10), Pt(34, 19), Pt(-5, 10)}
HandleTools == {"select", "pen", "eraser", "text"}
Right == [button |-> 2, shiftKey |-> FALSE, ctrlKey |-> FALSE]
HandleModifiers == {Plain, Ctrl, Shift, Middle, Right}

InitHandle == InitFrom(StorageWith(<<RectA, RectOver>>))

NextHandle ==
  \/ \E p \in HandlePoints, m \in HandleModifiers : MouseDownPan(p, m.button, m.shiftKey)
  \/ \E p \in HandlePoints, m \in HandleModifiers : MouseDownResize(p, m.button, m.shiftKey)
  \/ \E p \in HandlePoints, m \in HandleModifiers :
       MouseDownElement(p, m.button, m.shiftKey, m.ctrlKey)
  \/ \E p \in HandlePoints, m \in HandleModifiers :
       MouseDownSelect(p, m.button, m.shiftKey, m.ctrlKey)
  \/ \E p \in HandlePoints, m \in HandleModifiers : MouseDownText(p, m.button, m.shiftKey)
  \/ \E p \in HandlePoints, m \in HandleModifiers : MouseDownEraser(p, m.button, m.shiftKey)
  \/ \E p \in HandlePoints, m \in HandleModifiers :
       MouseDownEraserMiss(p, m.button, m.shiftKey)
  \/ \E p \in HandlePoints, m \in HandleModifiers : MouseDownDraw(p, m.button, m.shiftKey, now)
  \/ \E t \in HandleTools : SetTool(t)
  \/ MouseUpResize
  \/ MouseUpPan
  \/ PageRender

SpecHandle == InitHandle /\ [][NextHandle]_vars

\* the world point of the pointer-down that a step is, for the pointer-downs
\* that pass the pan trigger and the handle test
DownPoint ==
  IF ev'.op \in {"erase", "eraseMiss"} THEN ev'.at
  ELSE IF ev'.gesture = "element" THEN screenToCanvas(viewport, lastPanPoint'.x, lastPanPoint'.y)
  ELSE IF ev'.gesture \in {"marquee", "marqueeCtrl"} THEN selectionBox'.start
  ELSE IF ev'.gesture = "text" THEN screenToCanvas(viewport, textInput'.x, textInput'.y)
  ELSE ev'.trail[1]

\* the step is a pointer-down that went past the handle test
DownPastHandles ==
  \/ /\ steps' = steps + 1
     /\ \/ ev'.op = "erase"
        \/ /\ ev'.op = "mouseDown"
           /\ ev'.gesture \in {"element", "marquee", "marqueeCtrl", "text", "draw"}
  \/ ev'.op = "eraseMiss" /\ ev' # ev

\* C27: a resize starts only with a pointer-down that is no pan trigger, with
\* exactly one selected element that is in the store and whose bounds padded
\* by 5 have a handle under the point; the gesture targets that element with
\* its unpadded bounds as start bounds; with every tool such a pointer-down
\* starts the resize and nothing else (no selection change, marquee, text
\* input, erasure or draft).
C27_ResizeEntry ==
  [][/\ (resizeHandle' # NoResize /\ resizeHandle = NoResize) =>
          /\ ev'.op = "mouseDown" /\ ev'.gesture = "resize"
          /\ ~PanTrigger(ev'.button, ev'.shiftKey)
          /\ Cardinality(selectedElements) = 1
          /\ \E k \in 1..Len(elements) :
               LET bounds == getElementBounds(elements[k])
               IN /\ selectedElements = {elements[k].id}
                  /\ resizeHandle'.elementId = elements[k].id
                  /\ resizeHandle'.startBounds = bounds
                  /\ resizeHandle'.handle # "none"
                  /\ resizeHandle'.handle
                       = getHandleAtPoint(resizeHandle'.startPoint, PaddedBounds(bounds))
          /\ UNCHANGED <<elements, selectedElements, selectionBox, textInput, isDrawing,
                         currentElement, isPanning>>
     /\ DownPastHandles =>
          \/ Cardinality(selectedElements) # 1
          \/ \A k \in 1..Len(elements) :
               selectedElements = {elements[k].id} =>
                 getHandleAtPoint(DownPoint, PaddedBounds(getElementBounds(elements[k]))) = "none"
    ]_vars

\* with the eraser a resize of the selected upper rectangle has started from
\* its north-west handle, which lies inside the lower rectangle
C27_Witness ==
  /\ ev.op = "mouseDown" /\ ev.gesture = "resize"
  /\ tool = "eraser"
  /\ resizeHandle # NoResize
  /\ resizeHandle.elementId = RectOver.id
  /\ resizeHandle.handle = "nw"
  /\ resizeHandle.startBounds = getElementBounds(RectOver)
  /\ isPointInElement(resizeHandle.startPoint, RectA)
  /\ elements = <<RectA, RectOver>>

\* the last element in store order that contains the point, 0 if none
TopmostAt(point) ==
  LET idxs == {i \in 1..Len(elements) : isPointInElement(point, elements[i])}
  IN IF idxs = {} THEN 0 ELSE CHOOSE i \in idxs : \A j \in idxs : j <= i

\* C28: a pointer-down past the pan trigger and the handle test, with a tool
\* other than the eraser, on a point that elements contain targets the last
\* of them in store order: without Ctrl the selection becomes that element
\* alone, with Ctrl the element is toggled in the selection and the other
\* selected elements stay; a pointer-down that starts a marquee, a text input
\* or a draft had no element under it.
C28_ClickSelectsTopmost ==
  [][/\ (steps' = steps + 1 /\ ev'.op = "mouseDown" /\ ev'.gesture = "element") =>
          LET k == TopmostAt(DownPoint)
          IN /\ tool # "eraser"
             /\ k # 0
             /\ selectedElements' =
                  IF ~ev'.ctrlKey THEN {elements[k].id}
                  ELSE IF elements[k].id \in selectedElements
                       THEN selectedElements \ {elements[k].id}
                       ELSE selectedElements \cup {elements[k].id}
     /\ (/\ steps' = steps + 1 /\ ev'.op = "mouseDown"
         /\ ev'.gesture \in {"marquee", "marqueeCtrl", "text", "draw"}) =>
          TopmostAt(DownPoint) = 0
    ]_vars

\* a Ctrl-click where the rectangles overlap has added the upper one to the
\* selected lower one
C28_Witness ==
  /\ ev.op = "mouseDown" /\ ev.gesture = "element" /\ ev.ctrlKey
  /\ lastPanPoint = Pt(34, 19)
  /\ elements = <<RectA, RectOver>>
  /\ selectedElements = {RectA.id, RectOver.id}

-----------------------------------------------------------------------------
(* SpecEraser: pen strokes and the eraser over two rectangles that overlap *)

\* where the rectangles overlap, and two empty places
EraserPoints == {Pt(34, 19), Pt(100, 100), Pt(120, 100)}
EraserTools == {"pen", "eraser"}

InitEraser == InitFrom(StorageWith(<<RectA, RectOver>>))

NextEraser ==
  \/ \E p \in EraserPoints, t \in now..MaxNow : MouseDownDraw(p, 0, FALSE, t)
  \/ MouseUpDraw
  \/ \E p \in EraserPoints : MouseDownEraser(p, 0, FALSE)
  \/ \E p \in EraserPoints : MouseDownEraserMiss(p, 0, FALSE)
  \/ \E newTool \in EraserTools : SetTool(newTool)
  \/ PageRender

SpecEraser == InitEraser /\ [][NextEraser]_vars

\* els without its k-th element
WithoutIndex(els, k) == SubSeq(els, 1, k - 1) \o SubSeq(els, k + 1, Len(els))

\* C29: a pointer-down with the eraser, past the pan trigger and the handle
\* test, removes exactly one element, the last one in store order whose
\* bounds contain the point, keeps the other elements and their order and
\* starts no gesture; when no element contains the point the collection stays
\* as it is.
C29_EraserRemovesOne ==
  [][/\ (steps' = steps + 1 /\ ev'.op = "erase") =>
          /\ TopmostAt(ev'.at) # 0
          /\ elements' = WithoutIndex(elements, TopmostAt(ev'.at))
          /\ Idle => Idle'
     /\ (ev'.op = "eraseMiss" /\ ev' # ev) =>
          /\ TopmostAt(ev'.at) = 0
          /\ elements' = elements
          /\ Idle => Idle'
    ]_vars

-----------------------------------------------------------------------------
(* SpecModes: pointer events of every button, Escape and tool changes over a
   rectangle and a line *)

\* inside RectA, on the west handle of RectA, an empty place
ModePoints == {Pt(20, 10), Pt(-5, 10), Pt(70, 40)}
ModeTools == {"select", "pen"}
ModeButtons == {Plain, Middle, Right}

InitModes == InitFrom(StorageWith(<<RectA, LineB>>))

NextModes ==
  \/ \E p \in ModePoints, m \in ModeButtons : MouseDownPan(p, m.button, m.shiftKey)
  \/ \E p \in ModePoints, m \in ModeButtons : MouseDownResize(p, m.button, m.shiftKey)
  \/ \E p \in ModePoints, m \in ModeButtons :
       MouseDownElement(p, m.button, m.shiftKey, m.ctrlKey)
  \/ \E p \in ModePoints, m \in ModeButtons : MouseDownSelect(p, m.button, m.shiftKey, m.ctrlKey)
  \/ \E p \in ModePoints, m \in ModeButtons :
       MouseDownDraw(p, m.button, m.shiftKey, Min2(now + 1, MaxNow))
  \/ \E p \in ModePoints : MouseMoveResize(p)
  \/ \E p \in ModePoints : MouseMoveSelection(p)
  \/ \E p \in ModePoints : MouseMovePan(p)
  \/ \E p \in ModePoints : MouseMoveBox(p)
  \/ \E p \in ModePoints : MouseMoveDraw(p)
  \/ MouseUpResize
  \/ MouseUpBox
  \/ MouseUpPan
  \/ MouseUpDraw
  \/ MouseUpIdle
  \/ KeyEscape
  \/ \E newTool \in ModeTools : SetTool(newTool)
  \/ PageRender

SpecModes == InitModes /\ [][NextModes]_vars

\* the gesture modes that are active
ActiveModes ==
  {mode \in {"panning", "resizing", "marquee", "drawing"} :
     \/ mode = "panning" /\ isPanning
     \/ mode = "resizing" /\ resizeHandle # NoResize
     \/ mode = "marquee" /\ selectionBox # NoBox
     \/ mode = "drawing" /\ (isDrawing \/ currentElement # NoElement)}

\* the events that handleMouseUp answers: pointer-up and pointer-leave
UpOps == {"upResize", "upBox", "upPan", "upDraw", "upIdle"}

\* C30: in every reachable state at most one of the modes panning or moving
\* (isPanning), resizing (resizeHandle), marquee (selectionBox) and drawing
\* (isDrawing or a draft) is active, and after a pointer-up or pointer-leave
\* none of them is.
C30_OneModeAtATime ==
  /\ Cardinality(ActiveModes) <= 1
  /\ ev.op \in UpOps => ActiveModes = {}

-----------------------------------------------------------------------------
(* SpecRepeat: the resize sessions of SpecResize with pointer-move events
   that repeat the place of the one before *)

NextRepeat ==
  \/ NextResize
  \/ MouseMoveResizeRepeat

SpecRepeat == InitResize /\ [][NextRepeat]_vars

\* C31: during a resize the target element after a pointer-move depends only
\* on the start bounds, the start point and the pointer, not on the
\* pointer-moves handled before: the same pointer-move handled twice leaves
\* the element that it left when handled once, for every variant, and for a
\* line, an arrow and a path the bounds after the move are the clamped
\* candidate bounds.
C31_ResizeDependsOnStartOnly ==
  (ev.op \in {"moveResize", "moveResizeRepeat"} /\ resizeHandle # NoResize
   /\ FindIndex(elements, resizeHandle.elementId) # 0)
    => /\ ev.op = "moveResizeRepeat" => Resized = ev.once
       /\ Resized.type \in {"line", "arrow", "path"} =>
            getElementBounds(Resized)
              = ClampBounds(resizeHandle.handle, resizeHandle.startBounds,
                            CandidateBounds(resizeHandle.handle, resizeHandle.startBounds,
                                            ev.dx, ev.dy))

-----------------------------------------------------------------------------
(* SpecBatch: moving a stored rectangle and a stored line at scale 1, the
   pointer-moves handled one per render or two per render *)

\* inside RectA, on LineB, and two empty places
BatchPoints == {Pt(20, 10), Pt(80, 10), Pt(30, 10), Pt(50, 30)}

NextBatch ==
  \/ \E p \in BatchPoints, m \in {Plain, Ctrl} : MouseDownElement(p, 0, FALSE, m.ctrlKey)
  \/ \E p \in BatchPoints : MouseMoveSelection(p)
  \/ \E p, q \in BatchPoints : MouseMoveSelectionTwice(p, q)
  \/ MouseUpPan
  \/ SetTool("select")
  \/ PageRender

SpecBatch == InitSelect /\ [][NextBatch]_vars

\* C32: at a constant scale every pointer-move of a move gesture, however the
\* events fall between the renders, leaves every selected element translated
\* by the world delta between the pointer position handled last before and
\* the one handled last now, so that over the gesture the translations add up
\* to (pn - p0) / s; the other elements stay.
C32_MoveAddsUpToPointerDelta ==
  [][(ev'.op \in {"moveSelection", "moveSelectionTwice"} /\ steps' = steps + 1)
     => LET dx == Quot((lastPanPoint'.x - lastPanPoint.x) * ScaleUnit, viewport.scale)
            dy == Quot((lastPanPoint'.y - lastPanPoint.y) * ScaleUnit, viewport.scale)
        IN /\ Len(elements') = Len(elements)
           /\ \A i \in 1..Len(elements) :
                IF elements[i].id \in selectedElements
                THEN TranslatedBy(elements[i], elements'[i], dx, dy)
                ELSE elements'[i] = elements[i]]_vars

-----------------------------------------------------------------------------
(* SpecStale: resizing and moving while the Delete key or the eraser takes
   elements away, over a stored rectangle and a stored line *)

\* inside RectA, on the west handle of RectA, on LineB, an empty place
StalePoints == {Pt(20, 10), Pt(-5, 10), Pt(80, 10), Pt(70, 40)}
StaleTools == {"select", "eraser"}

NextStale ==
  \/ \E p \in StalePoints, m \in {Plain, Ctrl} : MouseDownElement(p, 0, FALSE, m.ctrlKey)
  \/ \E p \in StalePoints : MouseDownResize(p, 0, FALSE)
  \/ \E p \in StalePoints : MouseDownEraser(p, 2, FALSE)
  \/ \E p \in StalePoints : MouseMoveResize(p)
  \/ \E p \in StalePoints : MouseMoveSelection(p)
  \/ MouseUpResize
  \/ MouseUpPan
  \/ KeyDelete
  \/ \E newTool \in StaleTools : SetTool(newTool)
  \/ PageRender

SpecStale == InitSelect /\ [][NextStale]_vars

\* the ids of the elements in the store
StoredIds == {elements[i].id : i \in 1..Len(elements)}

\* C33: a pointer-move of a resize whose target is no longer in the store,
\* and a pointer-move of a move with no selected id in the store, leave the
\* collection as it is, in content and order, and the handler completes; a
\* move with some selected ids in the store leaves the elements with other
\* ids as they are.
C33_UnknownIdIsNoOp ==
  [][/\ (/\ ev'.op = "moveResize" /\ steps' = steps + 1
         /\ resizeHandle.elementId \notin StoredIds)
          => elements' = elements /\ resizeHandle' = resizeHandle
     /\ (ev'.op = "moveSelection" /\ steps' = steps + 1)
          => /\ Len(elements') = Len(elements)
             /\ \A i \in 1..Len(elements) :
                  elements[i].id \notin selectedElements => elements'[i] = elements[i]
             /\ selectedElements \cap StoredIds = {} => elements' = elements
    ]_vars

\* the rectangle was deleted while it was being resized, and the pointer-move
\* that followed has left the line alone
C33_Witness ==
  /\ ev.op = "moveResize"
  /\ resizeHandle # NoResize
  /\ resizeHandle.elementId = RectA.id
  /\ elements = <<LineB>>

-----------------------------------------------------------------------------
(* SpecText: the text tool over a stored rectangle, with a stored viewport
   at offset (10,20) and scale 2 *)

TextViewport == [x |-> 10, y |-> 20, scale |-> 2 * ScaleUnit]

\* screen points: inside RectA, on the west handle of RectA, and two empty
\* places
TextPoints == {Pt(50, 40), Pt(0, 40), Pt(210, 120), Pt(110, 220)}
TextTools == {"text", "select"}
TypedTexts == {"hi", "", " "}

InitText == InitFrom([StorageWith(<<RectA>>) EXCEPT !.canvasViewport = Ok(TextViewport)])

NextText ==
  \/ \E p \in TextPoints, m \in {Plain, Middle} : MouseDownPan(p, m.button, m.shiftKey)
  \/ \E p \in TextPoints : MouseDownResize(p, 0, FALSE)
  \/ \E p \in TextPoints : MouseDownElement(p, 0, FALSE, FALSE)
  \/ \E p \in TextPoints : MouseDownSelect(p, 0, FALSE, FALSE)
  \/ \E p \in TextPoints, m \in {Plain, Middle} : MouseDownText(p, m.button, m.shiftKey)
  \/ \E text \in TypedTexts, t \in {now, Min2(now + 1, MaxNow)} : TextSubmit(text, t)
  \/ TextCancel
  \/ MouseUpPan
  \/ MouseUpResize
  \/ MouseUpBox
  \/ \E newTool \in TextTools : SetTool(newTool)
  \/ PageRender

SpecText == InitText /\ [][NextText]_vars

\* C34: with the text tool a pointer-down past the pan trigger, the handle
\* test and the element hit-test shows the text input at the screen point and
\* leaves the store alone; Enter with content that is not blank appends
\* exactly one text element, anchored at the world point of the input's screen
\* point, and hides the input; Enter with blank content, Escape and blur hide
\* the input and append nothing.
C34_TextInputLifecycle ==
  [][/\ (steps' = steps + 1 /\ ev'.op = "mouseDown" /\ ev'.gesture = "text") =>
          /\ tool = "text"
          /\ TopmostAt(screenToCanvas(viewport, ev'.at.x, ev'.at.y)) = 0
          /\ textInput' = [x |-> ev'.at.x, y |-> ev'.at.y, show |-> TRUE]
          /\ elements' = elements
          /\ ls' = ls
     /\ (steps' = steps + 1 /\ ev'.op = "textSubmit") =>
          /\ textInput.show /\ ~textInput'.show
          /\ IF trim(ev'.text) # ""
             THEN /\ Len(elements') = Len(elements) + 1
                  /\ SubSeq(elements', 1, Len(elements)) = elements
                  /\ LET el == elements'[Len(elements')]
                         anchor == screenToCanvas(viewport, textInput.x, textInput.y)
                     IN /\ el.type = "text" /\ el.text = ev'.text
                        /\ el.x = anchor.x /\ el.y = anchor.y
             ELSE elements' = elements
     /\ (ev'.op = "textCancel" /\ textInput.show) =>
          /\ ~textInput'.show
          /\ elements' = elements
    ]_vars

\* the input opened at the screen point (210,120) and Enter with "hi" has put
\* a text element at the world point (100,50) behind the rectangle
C34_Witness ==
  /\ ev.op = "textSubmit" /\ ev.text = "hi"
  /\ ~textInput.show
  /\ Len(elements) = 2
  /\ elements[1] = RectA
  /\ elements[2].type = "text" /\ elements[2].text = "hi"
  /\ elements[2].x = 100 /\ elements[2].y = 50

-----------------------------------------------------------------------------
(* SpecFrame: selecting, panning and zooming over a stored rectangle and a
   stored line *)

\* inside RectA, on LineB, an empty place
FramePoints == {Pt(20, 10), Pt(80, 10), Pt(-10, -10)}
FrameTools == {"select", "hand", "pen"}

NextFrame ==
  \/ \E p \in FramePoints, m \in {Middle, Plain} : MouseDownPan(p, m.button, m.shiftKey)
  \/ \E p \in FramePoints, m \in {Plain, Ctrl} : MouseDownElement(p, 0, FALSE, m.ctrlKey)
  \/ \E p \in FramePoints, m \in {Plain, Ctrl} : MouseDownSelect(p, 0, FALSE, m.ctrlKey)
  \/ \E p \in FramePoints : MouseMoveSelection(p)
  \/ \E p \in FramePoints : MouseMovePan(p)
  \/ \E p \in FramePoints : MouseMoveBox(p)
  \/ MouseUpBox
  \/ MouseUpPan
  \/ KeyEscape
  \/ \E p \in FramePoints, zoomIn \in BOOLEAN : Wheel(p, zoomIn)
  \/ \E newTool \in FrameTools : SetTool(newTool)
  \/ PageRender

SpecFrame == InitSelect /\ [][NextFrame]_vars

\* the step is a click on an element, with or without Ctrl, a step of a
\* marquee selection, or an Escape that clears the selection
SelectionOnlyStep ==
  \/ /\ steps' = steps + 1
     /\ \/ ev'.op = "mouseDown" /\ ev'.gesture \in {"element", "marquee", "marqueeCtrl"}
        \/ ev'.op = "moveBox"
  \/ ev'.op = "upBox" /\ selectionBox # NoBox
  \/ ev'.op = "escape" /\ ~isDrawing /\ currentElement = NoElement /\ selectedElements # {}

\* the step is a wheel event or a pointer-move of a gesture that a pan trigger
\* started
ViewportOnlyStep ==
  /\ steps' = steps + 1
  /\ \/ ev'.op = "wheel"
     \/ /\ ev.gesture = "pan" /\ ev'.gesture = "pan" /\ ev'.op \in MoveOps
        /\ resizeHandle = NoResize /\ selectionBox = NoBox /\ ~isDrawing

\* C35: operations on the selection alone (click, Ctrl-click, marquee, Escape
\* that clears the selection) and on the viewport alone (pan, wheel zoom) leave
\* the collection as it is, in content and order, fire no change notification
\* and add no history snapshot.
C35_SelectionAndViewportKeepElements ==
  [][(SelectionOnlyStep \/ ViewportOnlyStep)
     => /\ elements' = elements
        /\ <<history', historyIndex'>> = <<history, historyIndex>>
        /\ ls'.canvasElements = ls.canvasElements]_vars

-----------------------------------------------------------------------------
\* C36: in every reachable state every selected id is the id of an element in
\* the store: no removed element stays selected.
C36_SelectionWithinStore == selectedElements \subseteq StoredIds


-----------------------------------------------------------------------------
\* C37: whenever the save-history effect persists a live history of more than
\* 50 snapshots (as its last 50, with cursor min(cursor, 49)), the persisted
\* cursor identifies the snapshot the live cursor identifies:
\* persistedHistory[persistedCursor] equals history[cursor].  The effect runs
\* in a page render, and in the render of an undo that commits before the
\* reload.
C37_PersistedCursorMatchesLive ==
  [][LET ranFor ==
           IF ev'.op = "undo" /\ steps' = steps + 1 /\ ev'.done /\ ev'.flushed
           THEN <<TRUE, rHistory, rIndex - 1>>
           ELSE IF ev' = ev /\ history' = history /\ rHistory' = history
                   /\ rIndex' = historyIndex /\ <<rHistory, rIndex>> # <<history, historyIndex>>
           THEN <<TRUE, history, historyIndex>>
           ELSE <<FALSE, <<>>, 0>>
         h == ranFor[2]
         i == ranFor[3]
     IN (ranFor[1] /\ Len(h) > 50) =>
          /\ ls'.canvasHistory.st = "ok"
          /\ ls'.canvasHistoryIndex.st = "ok"
          /\ Len(ls'.canvasHistory.v) = 50
          /\ ls'.canvasHistoryIndex.v = Min2(i, 49)
          /\ i >= 0 /\ i < Len(h)
          /\ ls'.canvasHistory.v[ls'.canvasHistoryIndex.v + 1] = StringifyAll(h[i + 1])]_vars


(***************************************************************************)
(* Gesture sessions: one stored element, a click on it, a grab of one of   *)
(* its handles, pointer-moves of the move and of the resize with page      *)
(* renders in between, the Delete key and the pointer-up                   *)
(***************************************************************************)
GesturePoints == {Pt(20, 10), Pt(-5, -5), Pt(45, 25), Pt(30, 15)}

NextGesture ==
  \/ \E p \in GesturePoints : MouseDownElement(p, 0, FALSE, FALSE)
  \/ \E p \in GesturePoints : MouseDownResize(p, 0, FALSE)
  \/ \E p \in GesturePoints : MouseMoveResize(p)
  \/ MouseMoveResizeRepeat
  \/ \E p \in GesturePoints : MouseMoveSelection(p)
  \/ MouseUpResize
  \/ MouseUpPan
  \/ KeyDelete
  \/ SetTool("select")
  \/ PageRender

SpecGesture == InitResize /\ [][NextGesture]_vars

\* C38: every pointer-move of a move or of a resize (each followed by its
\* re-render) sends its own change notification and adds its own history
\* snapshot: the collection is persisted, the cursor advances by one and,
\* when the page has rendered the previous notification, the history grows by
\* the collection the move left; the pointer-up adds no snapshot.
C38_EachMoveIsAnUndoStep ==
  [][/\ (\/ ev'.op \in {"moveSelection", "moveResize"} /\ steps' = steps + 1
         \/ ev'.op = "moveResizeRepeat" /\ ev # ev') =>
          /\ historyIndex' = historyIndex + 1
          /\ ls'.canvasElements = Ok(StringifyAll(elements'))
          /\ history'[Len(history')] = elements'
          /\ (Settled /\ historyIndex = Len(history) - 1) => history' = Append(history, elements')
     /\ (ev'.op \in {"upPan", "upResize"} /\ ev # ev') =>
          UNCHANGED <<elements, history, historyIndex>>]_vars


-----------------------------------------------------------------------------
\* the loaded cursor is an index of the loaded history
CursorInHistory(store) ==
  Loaded(store.canvasHistoryIndex, 0) < Len(Loaded(store.canvasHistory, << <<>> >>))

\* history and cursor after the rehydration from store, given the collection
\* els it leaves: with a loaded collection that is not empty, one notification
\* (the collection is persisted, the history is the loaded history up to the
\* loaded cursor plus the collection, the cursor is on that last snapshot);
\* with an empty one, the loaded history and cursor
RehydratedFrom(store, els, hist, cursor, stored) ==
  LET h == Loaded(store.canvasHistory, << <<>> >>)
      i == Loaded(store.canvasHistoryIndex, 0)
  IN /\ els = Loaded(store.canvasElements, <<>>)
     /\ IF Len(els) > 0
        THEN /\ stored.canvasElements = Ok(StringifyAll(els))
             /\ hist = Append(SubSeq(h, 1, Min2(i + 1, Len(h))), els)
             /\ cursor = Len(hist) - 1
        ELSE /\ stored.canvasElements = store.canvasElements
             /\ hist = h
             /\ cursor = i

====
